---- MODULE Spec2Model ----
(***************************************************************************)
(* Job monitoring of the backend AI service: BackendAiService              *)
(* (pollUntilComplete, monitorProcessing, getResults, fetchWithRetry) and  *)
(* the ProcessingProgressDialog effect that runs it.                       *)
(*                                                                         *)
(* Time is a discrete clock `now`.  A fetch attempt that is in flight      *)
(* settles after 0..timeout ticks, a delay() timer fires after its own     *)
(* number of ticks.  One run of pollUntilComplete is one sequential        *)
(* process whose position is `pc`; the effect cleanup of the dialog is the *)
(* only other process and runs only while the run is suspended on an       *)
(* await (a request in flight or a timer).                                 *)
(*                                                                         *)
(* The functions that turn a parsed body into a value (monitorProcessing,  *)
(* getResults and its transform* helpers) and processAudioFromFirebase     *)
(* with the attempts of fetchWithRetry are also run on their own: `fnCall` *)
(* holds the function called, its argument and what it gave, and the       *)
(* specifications SpecStatus, SpecSubmit and SpecResults draw the argument *)
(* from the bodies and arguments listed with them.                         *)
(*                                                                         *)
(* Parts with state of their own are run apart in `component`: two runs of *)
(* pollUntilComplete side by side (SpecTwoRuns), the static fields of the  *)
(* TranscriptionService with calls of transcribeAudio side by side         *)
(* (SpecTranscription), and the ProcessingProgressDialog with its renders, *)
(* its effect and the runs the effect starts (SpecDialog, SpecDialogFair). *)
(***************************************************************************)
EXTENDS Integers, Sequences, FiniteSets, TLC

VARIABLES
    sessionId,          \* argument of pollUntilComplete
    pollInterval,       \* argument of pollUntilComplete, in ticks
    maxDuration,        \* argument of pollUntilComplete, in ticks
    now,                \* Date.now()
    startTime,          \* const startTime
    pc,                 \* position of the run
    call,               \* which request is being made: "status" | "results"
    attempt,            \* fetchWithRetry: attempt
    thrown,             \* the error travelling to the catch block
    consecutiveErrors,  \* let consecutiveErrors
    session,            \* const session of the current iteration
    outcome,            \* what the promise settled with
    inFlight,           \* requests sent and not yet settled
    nPolls,             \* calls of monitorProcessing so far
    nPollOk,            \* calls of monitorProcessing that returned a session
    nProgress,          \* calls of onProgress so far
    progress,           \* dialog state `progress`: argument of the last onProgress
    nResultsCalls,      \* calls of getResults so far
    iterStart,          \* clock when the current loop iteration passed the while test
    settleTime,         \* clock when the promise settled
    pollingRef,         \* dialog: pollingRef.current
    cancelled,          \* the effect cleanup of the dialog has run for this run
    delivered,          \* dialog callback called with the outcome
    fnCall,             \* one function of the service called on its own:
                        \* its name, its arguments and what it gave
    component           \* a part of the program with state of its own, run
                        \* apart: two runs of pollUntilComplete side by side,
                        \* the ProcessingProgressDialog with the runs it
                        \* starts, the TranscriptionService with its callers

\* the arguments of the call
params == <<sessionId, pollInterval, maxDuration>>
\* the state of the dialog
dialog == <<pollingRef, cancelled, delivered>>

vars == <<sessionId, pollInterval, maxDuration, now, startTime, pc, call, attempt,
          thrown, consecutiveErrors, session, outcome, inFlight, nPolls, nPollOk,
          nProgress, progress, nResultsCalls, iterStart, settleTime,
          pollingRef, cancelled, delivered, fnCall, component>>

---------------------------------------------------------------------------
(* Bounds of the model *)

\* largest pollInterval tried, in ticks
MaxPollInterval == 2
\* largest maxDuration tried, in ticks
MaxMaxDuration == 9

\* words of the long chapter contents tried: MaxWords, and one more
MaxWords == 200

\* how far below 0 and above 100 the progress values tried go
MaxOvershoot == 2

\* the maxDuration values tried: shorter than any pollInterval, and long enough
\* for five failed polls with their four backoff delays
MaxDurations == {1, MaxMaxDuration}

(* Configuration and constants of the service *)

\* config.timeout, in ticks
timeout == 2
\* config.retryDelay, in ticks
retryDelay == 1
\* config.retryAttempts
retryAttempts == 3
\* const maxConsecutiveErrors
maxConsecutiveErrors == 5

---------------------------------------------------------------------------
(* Values *)

NoError == [name |-> "none", message |-> ""]
NoSession == [status |-> "none", errors |-> <<>>]

Err(name, message) == [name |-> name, message |-> message]

BackendAiServiceError(message) == Err("BackendAiServiceError", message)
NetworkError(message) == Err("NetworkError", message)
ProcessingTimeoutError(sid) ==
    Err("ProcessingTimeoutError", "Processing timeout for session " \o sid)

\* Array.prototype.join(', ')
RECURSIVE Join(_)
Join(s) ==
    IF s = <<>> THEN ""
    ELSE IF Len(s) = 1 THEN s[1]
    ELSE s[1] \o ", " \o Join(Tail(s))

\* the i-th character of a string
CharAt(s, i) == SubSeq(s, i, i)

\* white space that trim() removes
WhiteSpace == {" ", "\t", "\n"}

RECURSIVE TrimStart(_)
TrimStart(s) ==
    IF s # "" /\ Head(s) \in WhiteSpace THEN TrimStart(Tail(s)) ELSE s

RECURSIVE TrimEnd(_)
TrimEnd(s) ==
    IF s # "" /\ CharAt(s, Len(s)) \in WhiteSpace
    THEN TrimEnd(SubSeq(s, 1, Len(s) - 1))
    ELSE s

\* a trim() that leaves the string as it is
Trim_None(s) == s

\* String.prototype.trim()
Trim(s) == TrimEnd(TrimStart(s))

\* !s.trim()
IsBlank(s) == Trim(s) = ""

UpperCaseLetters == "ABCDEFGHIJKLMNOPQRSTUVWXYZ"
LowerCaseLetters == "abcdefghijklmnopqrstuvwxyz"

\* the lower case of every upper-case letter
LowerCaseOf ==
    [c \in {CharAt(UpperCaseLetters, i) : i \in 1..Len(UpperCaseLetters)} |->
        LET i == CHOOSE j \in 1..Len(UpperCaseLetters) : CharAt(UpperCaseLetters, j) = c
        IN  CharAt(LowerCaseLetters, i)]

\* toLowerCase of one character
LowerChar(c) == IF c \in DOMAIN LowerCaseOf THEN LowerCaseOf[c] ELSE c

\* String.prototype.toLowerCase(), character by character
RECURSIVE ToLowerCase(_)
ToLowerCase(s) ==
    IF s = "" THEN "" ELSE LowerChar(Head(s)) \o ToLowerCase(Tail(s))

\* normalizeStatus that compares the status as it came, without lower-casing it
normalizeStatus_CaseSensitive(status) ==
    IF status \in {"completed", "failed", "pending", "initializing"}
    THEN status
    ELSE "processing"

normalizeStatus(status) ==
    LET normalizedStatus == ToLowerCase(status) IN
    IF normalizedStatus \in {"completed", "failed", "pending", "initializing"}
    THEN normalizedStatus
    ELSE "processing"

---------------------------------------------------------------------------
(* JavaScript values: the pair of a type tag and the value, so that x[1] is   *)
(* what typeof and Array.isArray tell and x[2] is the value.  A parsed JSON  *)
(* object is a function from the names of the fields it carries to their     *)
(* values.                                                                   *)

Undefined == <<"undefined", 0>>
Null == <<"null", 0>>
Str(s) == <<"string", s>>
Num(n) == <<"number", n>>
Arr(a) == <<"array", a>>
Obj(o) == <<"object", o>>

\* the object without fields, {}
EmptyObject == Obj([k \in {} |-> Undefined])

\* ToBoolean: what `||` and `!` test
Truthy(x) ==
    CASE x[1] \in {"undefined", "null"} -> FALSE
      [] x[1] = "string" -> x[2] # ""
      [] x[1] = "number" -> x[2] # 0
      [] OTHER -> TRUE

\* an `||` that always takes its right operand
Or_Second(a, b) == b

\* a || b
Or(a, b) == IF Truthy(a) THEN a ELSE b

\* x.k for a value that is neither null nor undefined: the field if x is an
\* object that carries it, undefined for a field it lacks and for the names
\* read here on a number, a string or an array
Get(x, k) == IF x[1] = "object" /\ k \in DOMAIN x[2] THEN x[2][k] ELSE Undefined

\* x.k throws a TypeError
ReadThrows(x) == x[1] \in {"undefined", "null"}

\* a Math.max that takes its second argument, whatever the first
MathMax_Second(a, b) == b

\* Math.max and Math.min on two integers
MathMax(a, b) == IF a >= b THEN a ELSE b
MathMin(a, b) == IF a <= b THEN a ELSE b

---------------------------------------------------------------------------
(* The remote: what a request can be answered with *)

\* session ids the run is called with
SessionIds == {"s1", " "}

\* bodies of the status endpoint: status ("" when absent) and errors
StatusBodies ==
    {[status |-> "processing", errors |-> <<>>],
     [status |-> "paused",     errors |-> <<>>],
     [status |-> "",           errors |-> <<>>],
     [status |-> "COMPLETED",  errors |-> <<>>],
     [status |-> "failed",     errors |-> <<>>],
     [status |-> "failed",     errors |-> <<"disk full", "oom">>]}

\* bodies of the results endpoint
ResultsBodies == {"book"}

\* a response: the HTTP status and what reading the body as JSON gives
\*   kind "json": the parsed body; "invalid": response.json() rejects;
\*   "stall": the body never ends, response.json() stays pending;
\*   "unread": the body of a response that is not ok is not read
StatusResponses ==
    {[http |-> 200, kind |-> "json", body |-> b] : b \in StatusBodies}
    \cup {[http |-> 200, kind |-> k, body |-> NoSession] : k \in {"invalid", "stall"}}
    \cup {[http |-> h, kind |-> "unread", body |-> NoSession] : h \in {404, 500}}

ResultsResponses ==
    {[http |-> 200, kind |-> "json", body |-> b] : b \in ResultsBodies}
    \cup {[http |-> 200, kind |-> k, body |-> ""] : k \in {"invalid", "stall"}}
    \cup {[http |-> h, kind |-> "unread", body |-> ""] : h \in {404, 500}}

\* an attempt that never gets a response: fetch rejects, or the abort timer fires
FetchFailures == {"Failed to fetch", "The operation was aborted"}

---------------------------------------------------------------------------
(* monitorProcessing and getResults, from the response to what they return *)

Returned(v) == [ok |-> TRUE, value |-> v, error |-> NoError]
Threw(e) == [ok |-> FALSE, value |-> NoSession, error |-> e]

\* the session built from a parsed status body
BuildSession(statusData) ==
    [status |-> normalizeStatus(IF statusData.status = "" THEN "processing"
                                ELSE statusData.status),
     errors |-> statusData.errors]

\* monitorProcessing once fetchWithRetry returned `resp`
MonitorResult(sid, resp) ==
    IF resp.http # 200
    THEN IF resp.http = 404
         THEN Threw(BackendAiServiceError("Session not found: " \o sid))
         ELSE Threw(NetworkError("HTTP " \o ToString(resp.http)
                                 \o ": Failed to get processing status"))
    ELSE IF resp.kind = "json"
         THEN Returned(BuildSession(resp.body))
         ELSE Threw(NetworkError("Failed to monitor processing: "
                                 \o "Unexpected end of JSON input"))

\* getResults once fetchWithRetry returned `resp`
ResultsResult(sid, resp) ==
    IF resp.http # 200
    THEN IF resp.http = 404
         THEN Threw(BackendAiServiceError("Results not found for session: " \o sid))
         ELSE Threw(NetworkError("HTTP " \o ToString(resp.http)
                                 \o ": Failed to get processing results"))
    ELSE IF resp.kind = "json"
         THEN [ok |-> TRUE, value |-> resp.body, error |-> NoError]
         ELSE Threw(NetworkError("Failed to retrieve processing results: "
                                 \o "Unexpected end of JSON input"))

\* the ProcessingSession monitorProcessing builds from the parsed body
ProcessingSession(sid, statusData) ==
    [sessionId |-> Str(sid),
     status |-> Str(normalizeStatus(
                    Or(Get(statusData, "status"), Str("processing"))[2])),
     currentStage |-> Or(Or(Get(statusData, "current_stage"),
                            Get(statusData, "currentStage")),
                         Str("Processing...")),
     progressPercentage |->
         Num(MathMin(100, MathMax(0,
             Or(Or(Get(statusData, "progress_percentage"),
                   Get(statusData, "progressPercentage")),
                Num(0))[2]))),
     currentTask |-> Or(Or(Get(statusData, "current_task"),
                           Get(statusData, "currentTask")),
                        Str("Initializing...")),
     estimatedCompletion |-> Or(Get(statusData, "estimated_completion"),
                                Get(statusData, "estimatedCompletion")),
     resultsPreview |-> Or(Get(statusData, "results_preview"),
                           Get(statusData, "resultsPreview")),
     errors |-> IF Get(statusData, "errors")[1] = "array"
                THEN Get(statusData, "errors")
                ELSE Arr(<<>>)]

\* monitorProcessing once response.json() gave `statusData`: reading a field
\* of null throws, and so does toLowerCase on a status that is no string
StatusRead(sid, statusData) ==
    IF ReadThrows(statusData)
    THEN Threw(NetworkError("Failed to monitor processing: "
               \o "Cannot read properties of null (reading 'status')"))
    ELSE IF Or(Get(statusData, "status"), Str("processing"))[1] # "string"
    THEN Threw(NetworkError("Failed to monitor processing: "
               \o "status.toLowerCase is not a function"))
    ELSE Returned(ProcessingSession(sid, statusData))

---------------------------------------------------------------------------
(* getResults: the transformation of the parsed results body *)

\* s.split(' ').length: one piece more than there are blanks
SplitLength(s) == Cardinality({i \in 1..Len(s) : CharAt(s, i) = " "}) + 1

\* Math.ceil(n / d) for n >= 0
CeilDiv(n, d) == (n + d - 1) \div d

\* chapter.content?.split(' ').length
ContentPieces(chapter) ==
    IF ReadThrows(Get(chapter, "content")) THEN Undefined
    ELSE Num(SplitLength(Get(chapter, "content")[2]))

\* the placeholder id numbered from 1
IndexedId_OneBased(prefix, index) == Str(prefix \o ToString(index + 1))

\* `chapter_${index}`, `question_${index}`, `storyline_${index}`
IndexedId(prefix, index) == Str(prefix \o ToString(index))

\* `Chapter ${index + 1}`, `Storyline ${index + 1}`
IndexedTitle(prefix, index) == Str(prefix \o ToString(index + 1))

\* the callback of chapters.map, index counted from 0
transformChapter(chapter, index) ==
    [id |-> Or(Get(chapter, "id"), IndexedId("chapter_", index)),
     title |-> Or(Get(chapter, "title"), IndexedTitle("Chapter ", index)),
     content |-> Or(Get(chapter, "content"), Str("")),
     qualityScore |-> Or(Get(chapter, "quality_score"), Get(chapter, "qualityScore")),
     themes |-> Or(Get(chapter, "themes"), Arr(<<>>)),
     participants |-> Or(Get(chapter, "participants"), Arr(<<>>)),
     temporalMarkers |-> Or(Or(Get(chapter, "temporal_markers"),
                               Get(chapter, "temporalMarkers")), Arr(<<>>)),
     wordCount |-> Or(Or(Or(Get(chapter, "word_count"), Get(chapter, "wordCount")),
                         ContentPieces(chapter)), Num(0)),
     estimatedReadingTime |->
         Or(Or(Get(chapter, "estimated_reading_time"),
               Get(chapter, "estimatedReadingTime")),
            Num(CeilDiv(Or(ContentPieces(chapter), Num(0))[2], 200)))]

transformChapters(chapters) ==
    [i \in 1..Len(chapters) |-> transformChapter(chapters[i], i - 1)]

transformFollowupQuestions(questions) ==
    [i \in 1..Len(questions) |->
        LET q == questions[i] IN
        [id |-> Or(Get(q, "id"), IndexedId("question_", i - 1)),
         category |-> Or(Get(q, "category"), Str("General")),
         question |-> Or(Get(q, "question"), Str("")),
         context |-> Or(Get(q, "context"), Str("")),
         priorityScore |-> Or(Or(Get(q, "priority_score"), Get(q, "priorityScore")),
                              Num(0)),
         reasoning |-> Or(Get(q, "reasoning"), Str("")),
         suggestedAnswers |-> Or(Get(q, "suggested_answers"),
                                 Get(q, "suggestedAnswers"))]]

transformStorylines(storylines) ==
    [i \in 1..Len(storylines) |->
        LET st == storylines[i] IN
        [id |-> Or(Get(st, "id"), IndexedId("storyline_", i - 1)),
         title |-> Or(Get(st, "title"), IndexedTitle("Storyline ", i - 1)),
         description |-> Or(Get(st, "description"), Str("")),
         chapters |-> Or(Get(st, "chapters"), Arr(<<>>)),
         temporalRange |-> Or(Or(Get(st, "temporal_range"), Get(st, "temporalRange")),
                              Obj([start |-> Str(""), end |-> Str("")])),
         confidence |-> Or(Get(st, "confidence"), Num(0))]]

transformGraphSummary(summary) ==
    [totalNodes |-> Or(Or(Get(summary, "total_nodes"), Get(summary, "totalNodes")),
                       Num(0)),
     totalEdges |-> Or(Or(Get(summary, "total_edges"), Get(summary, "totalEdges")),
                       Num(0)),
     mainStorylines |-> Or(Or(Get(summary, "main_storylines"),
                              Get(summary, "mainStorylines")), Num(0)),
     temporalSpan |-> Or(Or(Get(summary, "temporal_span"),
                            Get(summary, "temporalSpan")), Str("")),
     keyThemes |-> Or(Or(Get(summary, "key_themes"), Get(summary, "keyThemes")),
                      Arr(<<>>))]

transformProcessingSummary(summary) ==
    [totalProcessingTime |-> Or(Or(Get(summary, "total_processing_time"),
                                   Get(summary, "totalProcessingTime")), Str("")),
     audioFilesProcessed |-> Or(Or(Get(summary, "audio_files_processed"),
                                   Get(summary, "audioFilesProcessed")), Num(0)),
     transcriptionAccuracy |-> Or(Or(Get(summary, "transcription_accuracy"),
                                     Get(summary, "transcriptionAccuracy")), Num(0)),
     chaptersGenerated |-> Or(Or(Get(summary, "chapters_generated"),
                                 Get(summary, "chaptersGenerated")), Num(0)),
     wordsGenerated |-> Or(Or(Get(summary, "words_generated"),
                              Get(summary, "wordsGenerated")), Num(0)),
     aiAgentsUsed |-> Or(Or(Get(summary, "ai_agents_used"),
                            Get(summary, "aiAgentsUsed")), Arr(<<>>))]

\* const results of getResults
ProcessingResults(resultsData) ==
    [chapters |-> Arr(transformChapters(
         Or(Get(resultsData, "chapters"), Arr(<<>>))[2])),
     followupQuestions |-> Arr(transformFollowupQuestions(
         Or(Or(Get(resultsData, "followup_questions"),
               Get(resultsData, "followupQuestions")), Arr(<<>>))[2])),
     questionCategories |-> Or(Or(Get(resultsData, "question_categories"),
                                  Get(resultsData, "questionCategories")),
                               EmptyObject),
     storylines |-> Arr(transformStorylines(
         Or(Get(resultsData, "storylines"), Arr(<<>>))[2])),
     graphSummary |-> Obj(transformGraphSummary(
         Or(Or(Get(resultsData, "graph_summary"),
               Get(resultsData, "graphSummary")), EmptyObject))),
     processingSummary |-> Obj(transformProcessingSummary(
         Or(Or(Get(resultsData, "processing_summary"),
               Get(resultsData, "processingSummary")), EmptyObject)))]

\* getResults once response.json() gave `resultsData`: reading a field of
\* null throws, and the TypeError is wrapped by the catch block
ResultsRead(resultsData) ==
    IF ReadThrows(resultsData)
    THEN Threw(NetworkError("Failed to retrieve processing results: "
               \o "Cannot read properties of null (reading 'chapters')"))
    ELSE Returned(ProcessingResults(resultsData))

\* fetchWithRetry after its last attempt failed with `lastError`
RetriesExhausted(lastError) ==
    NetworkError("Network request failed after " \o ToString(retryAttempts)
                 \o " attempts: " \o lastError)

\* the error pollUntilComplete throws for a session whose status is 'failed'
ProcessingFailed(s) ==
    BackendAiServiceError("Processing failed: " \o
        (IF Len(s.errors) > 0 THEN Join(s.errors)
         ELSE "Processing failed without specific error details"))

\* the error pollUntilComplete throws when it gives up
PollingExhausted(error) ==
    BackendAiServiceError("Polling failed after " \o ToString(maxConsecutiveErrors)
                          \o " consecutive errors. Last error: " \o error.message)

\* the value pollUntilComplete resolves with
Results(body) == [name |-> "ProcessingResults", message |-> body]

---------------------------------------------------------------------------
(* pollUntilComplete *)

\* the while test with the limit itself still inside the budget
LoopGuard_Inclusive(elapsed, limit) == elapsed <= limit

\* the while test
LoopGuard(elapsed, limit) == elapsed < limit

\* the test of the catch block, one failure late
GiveUp_OneLate(errors) == errors > maxConsecutiveErrors

\* the test of the catch block, on the incremented counter
GiveUp(errors) == errors >= maxConsecutiveErrors

\* the abort timer fires but the pending fetch is not aborted
AfterAbort_StillPending(n) == n

\* requests in flight once controller.abort() rejected the pending fetch
AfterAbort(n) == n - 1

Settled == pc \in {"resolved", "rejected"}

\* no function is being called on its own
NoCall == [fn |-> "none"]

\* the run of pollUntilComplete before its first step
Idle ==
    /\ sessionId \in SessionIds
    /\ pollInterval \in 1..MaxPollInterval
    /\ maxDuration \in MaxDurations
    /\ now = 0
    /\ startTime = 0
    /\ pc = "start"
    /\ call = "status"
    /\ attempt = 0
    /\ thrown = NoError
    /\ consecutiveErrors = 0
    /\ session = NoSession
    /\ outcome = NoError
    /\ inFlight = 0
    /\ nPolls = 0
    /\ nPollOk = 0
    /\ nProgress = 0
    /\ progress = NoSession
    /\ nResultsCalls = 0
    /\ iterStart = 0
    /\ settleTime = 0
    /\ pollingRef = TRUE
    /\ cancelled = FALSE
    /\ delivered = "none"

\* no part of the program is run apart
NoComponent == [kind |-> "none"]

Init ==
    /\ Idle
    /\ fnCall = NoCall
    /\ component = NoComponent

\* const startTime = Date.now(); let consecutiveErrors = 0
Call ==
    /\ pc = "start"
    /\ startTime' = now
    /\ consecutiveErrors' = 0
    /\ pc' = "loopHead"
    /\ UNCHANGED <<params, fnCall, component, dialog, now, call, attempt, thrown, session, outcome,
                   inFlight, nPolls, nPollOk, nProgress, progress, nResultsCalls,
                   iterStart, settleTime>>

\* the while test passes: monitorProcessing(sessionId) is called, which throws
\* for a blank session id and otherwise sends the first attempt of its request
PollStart ==
    /\ pc = "loopHead"
    /\ LoopGuard(now - startTime, maxDuration)
    /\ iterStart' = now
    /\ nPolls' = nPolls + 1
    /\ call' = "status"
    /\ session' = NoSession
    /\ IF IsBlank(sessionId)
       THEN /\ thrown' = BackendAiServiceError("Session ID is required")
            /\ pc' = "catch"
            /\ UNCHANGED <<attempt, inFlight>>
       ELSE /\ attempt' = 1
            /\ inFlight' = inFlight + 1
            /\ pc' = "fetch"
            /\ UNCHANGED thrown
    /\ UNCHANGED <<params, fnCall, component, dialog, now, startTime, consecutiveErrors, outcome,
                   nPollOk, nProgress, progress, nResultsCalls, settleTime>>

\* the while test fails: throw new ProcessingTimeoutError(sessionId)
TimeoutExit ==
    /\ pc = "loopHead"
    /\ ~LoopGuard(now - startTime, maxDuration)
    /\ pc' = "rejected"
    /\ outcome' = ProcessingTimeoutError(sessionId)
    /\ settleTime' = now
    /\ UNCHANGED <<params, fnCall, component, dialog, now, startTime, call, attempt, thrown,
                   consecutiveErrors, session, inFlight, nPolls, nPollOk, nProgress,
                   progress, nResultsCalls, iterStart>>

\* fetch resolves with a response before the abort timer fires (clearTimeout,
\* return response); the caller, monitorProcessing or getResults, inspects it
\* and reads its body.  The remote answers a status request with one of
\* `statusResps` and a results request with one of `resultsResps`.
FetchRespondOf(statusResps, resultsResps) ==
    /\ pc = "fetch"
    /\ \E d \in 0..(timeout - 1) :
       \E resp \in (IF call = "status" THEN statusResps ELSE resultsResps) :
          /\ now' = now + d
          /\ inFlight' = inFlight - 1
          /\ attempt' = 0
          /\ IF resp.kind = "stall"
             THEN /\ pc' = "hung"
                  /\ UNCHANGED <<session, nPollOk, thrown, outcome, settleTime>>
             ELSE IF call = "status"
             THEN LET r == MonitorResult(sessionId, resp) IN
                  IF r.ok
                  THEN /\ session' = r.value
                       /\ nPollOk' = nPollOk + 1
                       /\ pc' = "gotSession"
                       /\ UNCHANGED <<thrown, outcome, settleTime>>
                  ELSE /\ thrown' = r.error
                       /\ pc' = "catch"
                       /\ UNCHANGED <<session, nPollOk, outcome, settleTime>>
             ELSE LET r == ResultsResult(sessionId, resp) IN
                  IF r.ok
                  THEN /\ outcome' = Results(r.value)
                       /\ settleTime' = now'
                       /\ pc' = "resolved"
                       /\ UNCHANGED <<session, nPollOk, thrown>>
                  ELSE /\ thrown' = r.error
                       /\ pc' = "catch"
                       /\ UNCHANGED <<session, nPollOk, outcome, settleTime>>
    /\ UNCHANGED <<params, fnCall, component, dialog, startTime, call, consecutiveErrors, nPolls,
                   nProgress, progress, nResultsCalls, iterStart>>

FetchRespond == FetchRespondOf(StatusResponses, ResultsResponses)

\* the attempt fails: fetch rejects before the abort timer fires, or the timer
\* fires after `timeout` and aborts it.  Before the last attempt the failure
\* is followed by a delay, after it fetchWithRetry throws.  Only the attempts
\* up to `lastAttempt` fail.
FetchFailUpTo(lastAttempt) ==
    /\ pc = "fetch"
    /\ attempt <= lastAttempt
    /\ \E failure \in FetchFailures :
       \E d \in 0..timeout :
          /\ (failure = "The operation was aborted") <=> (d = timeout)
          /\ now' = now + d
          /\ inFlight' = (IF d = timeout THEN AfterAbort(inFlight) ELSE inFlight - 1)
          /\ IF attempt < retryAttempts
             THEN /\ pc' = "retryDelay"
                  /\ UNCHANGED <<thrown, attempt>>
             ELSE /\ thrown' = RetriesExhausted(failure)
                  /\ attempt' = 0
                  /\ pc' = "catch"
    /\ UNCHANGED <<params, fnCall, component, dialog, startTime, call, consecutiveErrors, session,
                   outcome, nPolls, nPollOk, nProgress, progress, nResultsCalls,
                   iterStart, settleTime>>

FetchFail == FetchFailUpTo(retryAttempts)

\* await this.delay(this.config.retryDelay * attempt) ends: the next attempt is sent
RetryDelayFire ==
    /\ pc = "retryDelay"
    /\ now' = now + retryDelay * attempt
    /\ attempt' = attempt + 1
    /\ inFlight' = inFlight + 1
    /\ pc' = "fetch"
    /\ UNCHANGED <<params, fnCall, component, dialog, startTime, call, thrown, consecutiveErrors,
                   session, outcome, nPolls, nPollOk, nProgress, progress,
                   nResultsCalls, iterStart, settleTime>>

\* onProgress called only for a session that is not yet completed
OnProgress_SkipCompleted ==
    /\ pc = "gotSession"
    /\ consecutiveErrors' = 0
    /\ nProgress' = (IF session.status = "completed" THEN nProgress ELSE nProgress + 1)
    /\ progress' = (IF session.status = "completed" THEN progress ELSE session)
    /\ pc' = "afterProgress"
    /\ UNCHANGED <<params, fnCall, component, dialog, now, startTime, call, attempt, thrown, session,
                   outcome, inFlight, nPolls, nPollOk, nResultsCalls, iterStart,
                   settleTime>>

\* monitorProcessing returned: consecutiveErrors = 0; onProgress(session), which
\* is the dialog's setProgress(session)
OnProgress ==
    /\ pc = "gotSession"
    /\ consecutiveErrors' = 0
    /\ nProgress' = nProgress + 1
    /\ progress' = session
    /\ pc' = "afterProgress"
    /\ UNCHANGED <<params, fnCall, component, dialog, now, startTime, call, attempt, thrown, session,
                   outcome, inFlight, nPolls, nPollOk, nResultsCalls, iterStart,
                   settleTime>>

\* the two tests on session.status: 'completed' calls getResults (its first
\* attempt is sent), 'failed' throws inside the try block, anything else
\* starts the delay(pollInterval)
Branch ==
    /\ pc = "afterProgress"
    /\ IF session.status = "completed"
       THEN /\ call' = "results"
            /\ nResultsCalls' = nResultsCalls + 1
            /\ attempt' = 1
            /\ inFlight' = inFlight + 1
            /\ pc' = "fetch"
            /\ UNCHANGED thrown
       ELSE IF session.status = "failed"
       THEN /\ thrown' = ProcessingFailed(session)
            /\ pc' = "catch"
            /\ UNCHANGED <<call, nResultsCalls, attempt, inFlight>>
       ELSE /\ pc' = "sleep"
            /\ UNCHANGED <<call, nResultsCalls, attempt, inFlight, thrown>>
    /\ UNCHANGED <<params, fnCall, component, dialog, now, startTime, consecutiveErrors, session,
                   outcome, nPolls, nPollOk, nProgress, progress, iterStart,
                   settleTime>>

\* await this.delay(pollInterval) ends
SleepFire ==
    /\ pc = "sleep"
    /\ now' = now + pollInterval
    /\ pc' = "loopHead"
    /\ UNCHANGED <<params, fnCall, component, dialog, startTime, call, attempt, thrown,
                   consecutiveErrors, session, outcome, inFlight, nPolls, nPollOk,
                   nProgress, progress, nResultsCalls, iterStart, settleTime>>

\* the catch block: whatever was thrown inside the try block lands here
Catch ==
    /\ pc = "catch"
    /\ consecutiveErrors' = consecutiveErrors + 1
    /\ thrown' = NoError
    /\ IF GiveUp(consecutiveErrors')
       THEN /\ outcome' = PollingExhausted(thrown)
            /\ settleTime' = now
            /\ pc' = "rejected"
       ELSE /\ pc' = "backoff"
            /\ UNCHANGED <<outcome, settleTime>>
    /\ UNCHANGED <<params, fnCall, component, dialog, now, startTime, call, attempt, session, inFlight,
                   nPolls, nPollOk, nProgress, progress, nResultsCalls, iterStart>>

\* the delay of the catch block as long as the one of the try block
BackoffFire_PollInterval ==
    /\ pc = "backoff"
    /\ now' = now + pollInterval
    /\ pc' = "loopHead"
    /\ UNCHANGED <<params, fnCall, component, dialog, startTime, call, attempt, thrown,
                   consecutiveErrors, session, outcome, inFlight, nPolls, nPollOk,
                   nProgress, progress, nResultsCalls, iterStart, settleTime>>

\* await this.delay(pollInterval * 2) ends
BackoffFire ==
    /\ pc = "backoff"
    /\ now' = now + pollInterval * 2
    /\ pc' = "loopHead"
    /\ UNCHANGED <<params, fnCall, component, dialog, startTime, call, attempt, thrown,
                   consecutiveErrors, session, outcome, inFlight, nPolls, nPollOk,
                   nProgress, progress, nResultsCalls, iterStart, settleTime>>

---------------------------------------------------------------------------
(* ProcessingProgressDialog *)

\* pollProgress after pollUntilComplete settled: onComplete(results) or
\* onError(message)
Deliver ==
    /\ Settled
    /\ delivered = "none"
    /\ delivered' = (IF pc = "resolved" THEN "onComplete" ELSE "onError")
    /\ pollingRef' = FALSE
    /\ UNCHANGED <<params, fnCall, component, cancelled, now, startTime, pc, call, attempt, thrown,
                   consecutiveErrors, session, outcome, inFlight, nPolls, nPollOk,
                   nProgress, progress, nResultsCalls, iterStart, settleTime>>

\* positions where the run is suspended on an await of a request or a timer
Suspended == pc \in {"fetch", "retryDelay", "sleep", "backoff", "hung"}

\* the cleanup of the effect: the dialog was closed, unmounted or given another
\* sessionId.  It runs between tasks, so while the run is suspended or over.
EffectCleanup ==
    /\ ~cancelled
    /\ Suspended \/ (Settled /\ delivered # "none")
    /\ pollingRef' = FALSE
    /\ cancelled' = TRUE
    /\ UNCHANGED <<params, fnCall, component, delivered, now, startTime, pc, call, attempt, thrown,
                   consecutiveErrors, session, outcome, inFlight, nPolls, nPollOk,
                   nProgress, progress, nResultsCalls, iterStart, settleTime>>

---------------------------------------------------------------------------
(* Specifications *)

Run ==
    \/ Call
    \/ PollStart
    \/ TimeoutExit
    \/ FetchRespond
    \/ FetchFail
    \/ RetryDelayFire
    \/ OnProgress
    \/ Branch
    \/ SleepFire
    \/ Catch
    \/ BackoffFire
    \/ Deliver

Next == Run \/ EffectCleanup

Spec == Init /\ [][Next]_vars

\* the event loop runs every continuation that is ready and fires every timer
SpecFair == Init /\ [][Next]_vars /\ WF_vars(Run)

---------------------------------------------------------------------------
(* The remote that answers every status poll with 'processing' *)

ProcessingResponses ==
    {[http |-> 200, kind |-> "json", body |-> [status |-> "processing", errors |-> <<>>]]}

InitProcessing == Init /\ sessionId = "s1"

\* an attempt may fail and be retried, the last attempt of a request is answered
RunProcessing ==
    \/ Call
    \/ PollStart
    \/ TimeoutExit
    \/ FetchRespondOf(ProcessingResponses, {})
    \/ FetchFailUpTo(retryAttempts - 1)
    \/ RetryDelayFire
    \/ OnProgress
    \/ Branch
    \/ SleepFire
    \/ Deliver

NextProcessing == RunProcessing \/ EffectCleanup

SpecProcessing ==
    InitProcessing /\ [][NextProcessing]_vars /\ WF_vars(RunProcessing)

---------------------------------------------------------------------------
(* monitorProcessing on its own: from the parsed status body to the session *)

\* the variables of the run of pollUntilComplete
run == <<sessionId, pollInterval, maxDuration, now, startTime, pc, call, attempt,
         thrown, consecutiveErrors, session, outcome, inFlight, nPolls, nPollOk,
         nProgress, progress, nResultsCalls, iterStart, settleTime,
         pollingRef, cancelled, delivered>>

\* no run of pollUntilComplete is going on
NoRun ==
    /\ Idle
    /\ sessionId = "s1"
    /\ pollInterval = 1
    /\ maxDuration = 1

\* what a call holds before it returned
Unsettled == Threw(NoError)

\* a call of `fn` with `arg` that has not returned
Calling(fn, arg) == [fn |-> fn, arg |-> arg, done |-> FALSE, ret |-> Unsettled]

\* all objects that carry some of the fields `keys`, with values from `values`
ObjectsOver(keys, values) == UNION {[D -> values] : D \in SUBSET keys}

\* values of the status field
StatusValues ==
    {Str(x) : x \in {"", "pending", "PENDING", "Initializing", "initializing",
                     "processing", "Processing", "completed", "COMPLETED",
                     "Completed", "failed", "Failed", "FAILED", "paused",
                     "complete", "done", " completed", "failed ", "error"}}
    \cup {Null, Num(1)}

\* progress values: around 0, inside the range, around 100
ProgressValues ==
    {Num(n) : n \in ((0 - MaxOvershoot)..MaxOvershoot) \cup {50}
                    \cup ((100 - MaxOvershoot)..(100 + MaxOvershoot))}

StageValues == {Str(""), Str("Transcribing"), Str("Writing chapters")}
TaskValues == {Str(""), Str("Chunk 3 of 7"), Str("Merging")}
CompletionValues == {Str(""), Str("2024-05-01T10:00:00Z"), Str("2024-05-01T10:05:00Z")}
PreviewValues == {Null, EmptyObject}
ErrorsValues == {Arr(<<>>), Arr(<<Str("oom")>>), Str("oom"), Null}

\* objects that vary one field, in its two spellings
FieldObjects ==
    ObjectsOver({"current_stage", "currentStage"}, StageValues)
    \cup ObjectsOver({"progress_percentage", "progressPercentage"}, ProgressValues)
    \cup ObjectsOver({"current_task", "currentTask"}, TaskValues)
    \cup ObjectsOver({"estimated_completion", "estimatedCompletion"}, CompletionValues)
    \cup ObjectsOver({"results_preview", "resultsPreview"}, PreviewValues)
    \cup ObjectsOver({"errors"}, ErrorsValues)

\* what response.json() of a status response can give: an object, or a JSON
\* value that is no object
StatusJson ==
    {Obj(s @@ o) : s \in ObjectsOver({"status"}, StatusValues), o \in FieldObjects}
    \cup {Null, Num(42), Str("ok"), Arr(<<>>)}

InitStatus ==
    /\ NoRun
    /\ component = NoComponent
    /\ fnCall \in {Calling("monitorProcessing", b) : b \in StatusJson}

\* const statusData = await response.json(), and the rest of monitorProcessing
MonitorProcessingReturns ==
    /\ fnCall.fn = "monitorProcessing"
    /\ ~fnCall.done
    /\ fnCall' = [fnCall EXCEPT !.done = TRUE,
                                !.ret = StatusRead(sessionId, fnCall.arg)]
    /\ UNCHANGED <<run, component>>

NextStatus == MonitorProcessingReturns

SpecStatus == InitStatus /\ [][NextStatus]_vars

---------------------------------------------------------------------------
(* processAudioFromFirebase on its own, with the attempts of fetchWithRetry *)

\* most audio URLs passed in one call
MaxAudioUrls == 2

\* the audioUrls arrays tried
AudioUrlLists ==
    UNION {[1..n -> {"gs://audio/a.webm"}] : n \in 0..MaxAudioUrls}

ChapterTitles == {"", " ", " \t\n", "Summer", " My trip "}
ChapterDescriptions == {"", "  ", "\n", "About the summer of 1962"}

\* no response has arrived
NoResponse == [http |-> 0, kind |-> "none", body |-> Undefined]

\* what the processing endpoint can answer: the HTTP status and what
\* response.json() gives ("invalid": it rejects)
SubmitResponses ==
    {[http |-> 200, kind |-> "json", body |-> b] :
        b \in {Obj([sessionId |-> Str("sess-1")]),
               Obj([sessionId |-> Str("")]),
               EmptyObject, Null}}
    \cup {[http |-> h, kind |-> "json", body |-> b] :
        h \in {422, 500},
        b \in {Obj([detail |-> Str("Quota exceeded")]), EmptyObject}}
    \cup {[http |-> h, kind |-> "invalid", body |-> Undefined] : h \in {200, 500}}

\* the loop test of fetchWithRetry, with one attempt more
HasAttempt_OneMore(n) == n <= retryAttempts + 1

\* the loop test of fetchWithRetry: attempt <= retryAttempts
HasAttempt(n) == n <= retryAttempts

\* a fetchWithRetry that waits after every failed attempt
WaitsBeforeRetry_Always(n) == TRUE

\* fetchWithRetry waits after a failed attempt: attempt < retryAttempts
WaitsBeforeRetry(n) == n < retryAttempts

\* the checks of the arguments: the error thrown, or NoError
ArgumentError(arg) ==
    IF Len(arg.audioUrls) = 0
    THEN BackendAiServiceError("No audio URLs provided")
    ELSE IF IsBlank(arg.chapterTitle)
    THEN BackendAiServiceError("Chapter title is required")
    ELSE IF IsBlank(arg.chapterDescription)
    THEN BackendAiServiceError("Chapter description is required")
    ELSE NoError

\* an error that is no BackendAiServiceError, as the catch block rethrows it
StartFailed(message) ==
    BackendAiServiceError("Failed to start audio processing: " \o message)

\* processAudioFromFirebase once fetchWithRetry returned `resp`
SubmitResult(resp) ==
    IF resp.http # 200
    THEN LET errorData == IF resp.kind = "json" THEN resp.body ELSE EmptyObject IN
         Threw(NetworkError(
             Or(Get(errorData, "detail"),
                Str("HTTP " \o ToString(resp.http) \o ": Processing request failed"))[2]))
    ELSE IF resp.kind # "json"
    THEN Threw(StartFailed("Unexpected end of JSON input"))
    ELSE IF ReadThrows(resp.body)
    THEN Threw(StartFailed("Cannot read properties of null (reading 'sessionId')"))
    ELSE IF ~Truthy(Get(resp.body, "sessionId"))
    THEN Threw(BackendAiServiceError("Invalid response: missing session ID"))
    ELSE Returned(Get(resp.body, "sessionId"))

\* a call of processAudioFromFirebase before its first statement
\* the jobs on the remote once it handled one more POST of the call: the body
\* is JSON.stringify({audioUrls, chapterTitle, chapterDescription,
\* userPreferences}), the same for every attempt and with nothing in it that
\* tells a retry from a new request, and the remote starts a job for a POST
\* it handles
Handled(jobs) == jobs + 1

\* a call of processAudioFromFirebase; `jobs` counts the jobs the remote
\* started for it
Submitting(arg) ==
    [fn |-> "processAudioFromFirebase", arg |-> arg, done |-> FALSE,
     ret |-> Unsettled, phase |-> "called", attempt |-> 0, sent |-> 0,
     failures |-> <<>>, waits |-> <<>>, response |-> NoResponse, jobs |-> 0]

InitSubmit ==
    /\ NoRun
    /\ component = NoComponent
    /\ fnCall \in {Submitting([audioUrls |-> a, chapterTitle |-> t,
                                chapterDescription |-> d]) :
                      a \in AudioUrlLists, t \in ChapterTitles,
                      d \in ChapterDescriptions}

\* the next attempt of fetchWithRetry, numbered n: it is sent if the loop test
\* holds; after the loop the NetworkError is thrown, which the catch block of
\* processAudioFromFirebase rethrows
NextAttempt(c, n) ==
    IF HasAttempt(n)
    THEN [c EXCEPT !.phase = "fetch", !.attempt = n, !.sent = c.sent + 1]
    ELSE [c EXCEPT !.phase = "done", !.done = TRUE,
              !.ret = Threw(RetriesExhausted(c.failures[Len(c.failures)]))]

\* the three checks, then fetchWithRetry and its first attempt
SubmitValidate ==
    /\ fnCall.fn = "processAudioFromFirebase"
    /\ fnCall.phase = "called"
    /\ fnCall' = IF ArgumentError(fnCall.arg) # NoError
                 THEN [fnCall EXCEPT !.phase = "done", !.done = TRUE,
                                     !.ret = Threw(ArgumentError(fnCall.arg))]
                 ELSE NextAttempt(fnCall, 1)
    /\ UNCHANGED <<run, component>>

\* fetch rejects or the abort timer fires: the catch block of fetchWithRetry.
\* The connection broke or the timer fired before the remote received the
\* request, or after it received and handled it.
SubmitAttemptFails ==
    /\ fnCall.fn = "processAudioFromFirebase"
    /\ fnCall.phase = "fetch"
    /\ \E f \in FetchFailures, received \in BOOLEAN :
         LET failed == [fnCall EXCEPT
                            !.failures = Append(fnCall.failures, f),
                            !.jobs = IF received THEN Handled(fnCall.jobs) ELSE fnCall.jobs] IN
         fnCall' = IF WaitsBeforeRetry(fnCall.attempt)
                   THEN [failed EXCEPT !.phase = "delay",
                            !.waits = Append(fnCall.waits,
                                             retryDelay * fnCall.attempt)]
                   ELSE NextAttempt(failed, fnCall.attempt + 1)
    /\ UNCHANGED <<run, component>>

\* the delay of fetchWithRetry is over
SubmitDelayFires ==
    /\ fnCall.fn = "processAudioFromFirebase"
    /\ fnCall.phase = "delay"
    /\ fnCall' = NextAttempt(fnCall, fnCall.attempt + 1)
    /\ UNCHANGED <<run, component>>

\* fetch resolves with a response, of whatever status: fetchWithRetry returns it
SubmitAttemptResponds ==
    /\ fnCall.fn = "processAudioFromFirebase"
    /\ fnCall.phase = "fetch"
    /\ \E resp \in SubmitResponses :
         fnCall' = [fnCall EXCEPT !.phase = "done", !.done = TRUE,
                                 !.response = resp, !.ret = SubmitResult(resp),
                                 !.jobs = IF resp.http = 200 THEN Handled(fnCall.jobs)
                                          ELSE fnCall.jobs]
    /\ UNCHANGED <<run, component>>

NextSubmit ==
    \/ SubmitValidate
    \/ SubmitAttemptFails
    \/ SubmitDelayFires
    \/ SubmitAttemptResponds

SpecSubmit == InitSubmit /\ [][NextSubmit]_vars

---------------------------------------------------------------------------
(* getResults on its own: from the parsed results body to the results *)

\* the function with no argument: the fields of {}
NoFields == EmptyObject[2]

\* the objects that carry the field k with a value of V, or lack it
Optional(k, V) == {NoFields} \cup {(k :> v) : v \in V}

\* the objects with the fields of one of A and of one of B
Merged(A, B) == {a @@ b : a \in A, b \in B}

\* n words, one blank between two of them
RECURSIVE Words(_)
Words(n) ==
    IF n = 0 THEN ""
    ELSE IF n = 1 THEN "w"
    ELSE Words(n \div 2) \o " " \o Words(n - (n \div 2))

ContentValues ==
    {Str(x) : x \in {"", "one", "two words", "a  b", " padded ",
                     Words(MaxWords), Words(MaxWords + 1)}}

\* chapters that vary content, word count and reading time
CountedChapters ==
    Merged(Merged(Merged(Optional("content", ContentValues),
                         Optional("word_count", {Num(0), Num(400)})),
                  Optional("wordCount", {Num(250)})),
           Merged(Optional("estimated_reading_time", {Num(3)}),
                  Optional("estimatedReadingTime", {Num(0), Num(7)})))

\* chapters that vary the other fields
DescribedChapters ==
    Merged(Merged(Optional("id", {Str(""), Str("ch-9")}),
                  Optional("title", {Str(""), Str("Childhood")})),
           Merged(Optional("quality_score", {Num(1)}),
                  Optional("qualityScore", {Num(0), Num(2)})))
    \cup Merged(Merged(Optional("themes", {Arr(<<>>), Arr(<<Str("family")>>)}),
                      Optional("participants", {Arr(<<Str("Ada")>>)})),
               Merged(Optional("temporal_markers", {Arr(<<Str("1962")>>)}),
                      Optional("temporalMarkers", {Arr(<<>>)})))

ChapterObjects == {Obj(c) : c \in CountedChapters \cup DescribedChapters}

QuestionObjects ==
    {Obj(q) : q \in
        Merged(Merged(Optional("id", {Str("q-1")}),
                      Optional("category", {Str(""), Str("Family")})),
               Merged(Optional("question", {Str("Who was there?")}),
                      Optional("context", {Str("the wedding")})))
        \cup Merged(Merged(Optional("priority_score", {Num(0), Num(5)}),
                          Optional("priorityScore", {Num(3)})),
                   Merged(Optional("reasoning", {Str("gap in 1962")}),
                          Optional("suggested_answers", {Arr(<<Str("Ada")>>)})))}

StorylineObjects ==
    {Obj(x) : x \in
        Merged(Merged(Optional("id", {Str("st-1")}),
                      Optional("title", {Str(""), Str("The farm")})),
               Merged(Optional("description", {Str("years on the farm")}),
                      Optional("chapters", {Arr(<<Str("ch-9")>>)})))
        \cup Merged(Optional("temporal_range",
                            {Obj([start |-> Str("1960"), end |-> Str("1962")])}),
                   Optional("confidence", {Num(0), Num(1)}))}

GraphSummaryObjects ==
    {Obj(x) : x \in
        Merged(Merged(Optional("total_nodes", {Num(0), Num(12)}),
                      Optional("totalNodes", {Num(9)})),
               Merged(Optional("total_edges", {Num(30)}),
                      Optional("mainStorylines", {Num(2)})))
        \cup Merged(Optional("temporal_span", {Str(""), Str("1960-1962")}),
                   Merged(Optional("key_themes", {Arr(<<Str("family")>>)}),
                          Optional("keyThemes", {Arr(<<>>)})))}

ProcessingSummaryObjects ==
    {Obj(x) : x \in
        Merged(Merged(Optional("total_processing_time", {Str("42s")}),
                      Optional("audio_files_processed", {Num(0), Num(2)})),
               Merged(Optional("transcriptionAccuracy", {Num(1)}),
                      Optional("chapters_generated", {Num(4)})))
        \cup Merged(Optional("wordsGenerated", {Num(0), Num(1200)}),
                   Merged(Optional("ai_agents_used", {Arr(<<Str("writer")>>)}),
                          Optional("aiAgentsUsed", {Arr(<<>>)})))}

\* what response.json() of a results response can give
ResultsJson ==
    {Obj("chapters" :> Arr(<<c>>)) : c \in ChapterObjects}
    \cup {Obj("chapters" :> Arr(<<EmptyObject, c>>)) :
             c \in {Obj(x) : x \in DescribedChapters}}
    \cup {Obj(k :> Arr(<<EmptyObject, q>>)) :
             k \in {"followup_questions", "followupQuestions"},
             q \in QuestionObjects}
    \cup {Obj("storylines" :> Arr(<<x, EmptyObject>>)) : x \in StorylineObjects}
    \cup {Obj(k :> g) : k \in {"graph_summary", "graphSummary"},
                        g \in GraphSummaryObjects}
    \cup {Obj(k :> x) : k \in {"processing_summary", "processingSummary"},
                        x \in ProcessingSummaryObjects}
    \cup {EmptyObject, Null}

InitResults ==
    /\ NoRun
    /\ component = NoComponent
    /\ fnCall \in {Calling("getResults", b) : b \in ResultsJson}

\* const resultsData = await response.json(), and the rest of getResults
GetResultsReturns ==
    /\ fnCall.fn = "getResults"
    /\ ~fnCall.done
    /\ fnCall' = [fnCall EXCEPT !.done = TRUE, !.ret = ResultsRead(fnCall.arg)]
    /\ UNCHANGED <<run, component>>

NextResults == GetResultsReturns

SpecResults == InitResults /\ [][NextResults]_vars

---------------------------------------------------------------------------
(* Properties *)

\* the errors monitorProcessing can throw
PollErrors ==
    {MonitorResult(sessionId, r).error : r \in {x \in StatusResponses : x.kind \in {"invalid", "unread"}}}
    \cup {RetriesExhausted(f) : f \in FetchFailures}
    \cup {BackendAiServiceError("Session ID is required")}

\* the errors getResults can throw
ResultsErrors ==
    {ResultsResult(sessionId, r).error : r \in {x \in ResultsResponses : x.kind \in {"invalid", "unread"}}}
    \cup {RetriesExhausted(f) : f \in FetchFailures}

IsProcessingFailed(o) ==
    \E b \in StatusBodies : o = ProcessingFailed(BuildSession(b))
IsPollingExhausted(o) ==
    \E e \in PollErrors \cup ResultsErrors \cup {ProcessingFailed(BuildSession(b)) : b \in StatusBodies} :
        o = PollingExhausted(e)
IsTimeout(o) == o = ProcessingTimeoutError(sessionId)
IsResults(o) == \E b \in ResultsBodies : o = Results(b)

\* positions inside the synchronous handling of a session just polled
Handling == pc \in {"gotSession", "afterProgress", "catch"}

\* C1: once a status poll returned a session with status 'failed' and its
\* synchronous handling is over, the run is rejected with the processing-failed
\* error built from the session's errors: it is not sleeping and not polling.
C1_FailedStatusRejects ==
    (session.status = "failed" /\ ~Handling)
        => (pc = "rejected" /\ outcome = ProcessingFailed(session))

\* C2: once getResults failed, the run is rejected with the error getResults
\* threw, consecutiveErrors is still 0, and getResults is never called twice.
C2_ResultsFailureRejects ==
    /\ nResultsCalls <= 1
    /\ (call = "results" /\ pc \notin {"fetch", "retryDelay", "hung", "catch", "resolved"})
          => (pc = "rejected" /\ outcome \in ResultsErrors /\ consecutiveErrors = 0)

\* C3: onProgress is called once per successful status poll, in poll order, with
\* the session of that poll and before anything else is done with it; a
\* 'completed' session leads to getResults, and a run that resolves does so
\* with the results, after as many onProgress calls as polls answered (k + 1
\* when k answers were not terminal and the last was 'completed').
C3_ProgressOncePerPoll ==
    /\ nProgress <= nPollOk
    /\ nPollOk <= nProgress + 1
    /\ (nProgress < nPollOk) <=> (pc = "gotSession")
    /\ pc = "afterProgress" => progress = session
    /\ (session.status = "completed" /\ pc \notin {"gotSession", "afterProgress"})
          => call = "results"
    /\ pc = "resolved" =>
          /\ nProgress = nPollOk
          /\ nResultsCalls >= 1
          /\ progress.status = "completed"
          /\ IsResults(outcome)

\* three polls answered at once, pollInterval apart, the third with 'completed'
C3_Witness ==
    /\ pc = "resolved"
    /\ nPolls = 3 /\ nPollOk = 3 /\ nProgress = 3
    /\ nResultsCalls = 1
    /\ pollInterval = 1 /\ settleTime - startTime = 2
    /\ outcome = Results("book")

\* C4: as long as no status poll succeeded, at most 5 polls are made; after the
\* 5th failed the run is rejected with the polling-exhausted error, and a run
\* rejected earlier was rejected by the timeout.
C4_ExhaustedAfterFive ==
    nPollOk = 0 =>
        /\ nPolls <= 5
        /\ consecutiveErrors \in {nPolls - 1, nPolls}
        /\ (nPolls = 5 /\ pc \notin {"fetch", "retryDelay", "hung", "catch"})
              => (pc = "rejected" /\ IsPollingExhausted(outcome))
        /\ (pc = "rejected" /\ nPolls < 5) => IsTimeout(outcome)
        /\ pc # "resolved"

\* five polls failed, the last one because every attempt of its request timed out
C4_Witness ==
    /\ pc = "rejected"
    /\ sessionId = "s1"
    /\ nPollOk = 0 /\ nPolls = 5
    /\ outcome = PollingExhausted(RetriesExhausted("The operation was aborted"))

TimedOut == pc = "rejected" /\ IsTimeout(outcome)

\* C5: with a remote that answers every status poll with 'processing' the run
\* is eventually rejected with ProcessingTimeoutError, and no status poll
\* starts once the elapsed time is maxDuration or more.
C5_ProcessingTimesOut ==
    /\ <>TimedOut
    /\ [][nPolls' > nPolls => now - startTime < maxDuration]_vars

\* maxDuration shorter than pollInterval: one poll, one sleep, then the timeout
C5_Witness ==
    /\ TimedOut
    /\ pollInterval > maxDuration
    /\ nPolls = 1 /\ nPollOk = 1 /\ nProgress = 1
    /\ progress.status = "processing"

\* longest time fetchWithRetry takes: every attempt times out
RequestMax ==
    retryAttempts * timeout + retryDelay * ((retryAttempts * (retryAttempts - 1)) \div 2)

\* longest loop iteration: a status poll, a results fetch, the longer delay
IterationMax == 2 * RequestMax + 2 * pollInterval

C7_SilentAfterCancel ==
    [][cancelled => (nProgress' = nProgress /\ delivered' = delivered)]_vars

\* C8: once the cleanup has run, no status request is sent and no poll or
\* backoff timer is pending.
C8_NoRequestAfterCancel ==
    [][cancelled' => (/\ ~(inFlight' > inFlight /\ call' = "status")
                      /\ pc' \notin {"sleep", "backoff"})]_vars

\* C9: at most one request is in flight, only while the run waits for it, and
\* by then onProgress has returned for every session polled before.
C9_OneRequestInFlight ==
    /\ inFlight \in {0, 1}
    /\ (inFlight = 1) <=> (pc = "fetch")
    /\ pc = "fetch" => (nProgress = nPollOk /\ attempt \in 1..retryAttempts)

\* the second attempt of the status request of a later poll is in flight
C9_Witness ==
    /\ inFlight = 1
    /\ call = "status"
    /\ attempt = 2
    /\ nPollOk >= 1

\* C10: the run eventually settles, with the results, a processing-failed
\* error, a polling-exhausted error or ProcessingTimeoutError, and once settled
\* it sends no request and calls onProgress no more.
C10_SettlesInOneOutcome ==
    /\ <>Settled
    /\ [](Settled => (IsResults(outcome) \/ IsProcessingFailed(outcome)
                      \/ IsPollingExhausted(outcome) \/ IsTimeout(outcome)))
    /\ [][Settled => (pc' = pc /\ outcome' = outcome /\ inFlight' = inFlight
                      /\ nProgress' = nProgress)]_vars

---------------------------------------------------------------------------
(* Properties of monitorProcessing on its own *)

\* monitorProcessing returned a session for a body that is an object
SessionBuilt ==
    /\ fnCall.fn = "monitorProcessing"
    /\ fnCall.done
    /\ fnCall.arg[1] = "object"
    /\ fnCall.ret.ok

CanonicalStatuses == {"pending", "initializing", "processing", "completed", "failed"}

\* the same character, or the two cases of one letter
SameLetter(a, b) ==
    \/ a = b
    \/ \E i \in 1..Len(UpperCaseLetters) :
          {a, b} = {CharAt(UpperCaseLetters, i), CharAt(LowerCaseLetters, i)}

EqualsIgnoreCase(s, c) ==
    /\ Len(s) = Len(c)
    /\ \A i \in 1..Len(s) : SameLetter(CharAt(s, i), CharAt(c, i))

\* C11: a status string that is, whatever its case, one of pending,
\* initializing, processing, completed, failed gives that value in lower
\* case; every other string, the empty one and an absent status included,
\* gives 'processing', so never 'completed' or 'failed'
C11_StatusNormalized ==
    (SessionBuilt /\ Get(fnCall.arg, "status")[1] \in {"string", "undefined"}) =>
        LET raw == Get(fnCall.arg, "status")
            s == IF raw[1] = "string" THEN raw[2] ELSE ""
            matches == {c \in CanonicalStatuses : EqualsIgnoreCase(s, c)}
            out == fnCall.ret.value.status[2]
        IN  IF matches # {} THEN out \in matches ELSE out = "processing"

\* 'Failed' arrived and became 'failed'
C11_Witness ==
    /\ SessionBuilt
    /\ Get(fnCall.arg, "status") = Str("Failed")
    /\ fnCall.ret.value.status = Str("failed")

\* a number brought into 0..100
Clamped(n) == IF n < 0 THEN 0 ELSE IF n > 100 THEN 100 ELSE n

\* C12: the progress of a session is within 0..100: a value below 0 gives 0,
\* a value above 100 gives 100, a value in between is kept, and a payload
\* without a progress value gives 0
C12_ProgressClamped ==
    SessionBuilt =>
        LET carried == {x \in {Get(fnCall.arg, "progress_percentage"),
                               Get(fnCall.arg, "progressPercentage")} :
                          x[1] = "number"}
            out == fnCall.ret.value.progressPercentage[2]
        IN  /\ out \in 0..100
            /\ IF carried = {} THEN out = 0
               ELSE out \in {Clamped(x[2]) : x \in carried}

\* a progress above 100 arrived and the session shows 100
C12_Witness ==
    /\ SessionBuilt
    /\ Get(fnCall.arg, "progress_percentage") = Num(100 + MaxOvershoot)
    /\ Get(fnCall.arg, "progressPercentage") = Undefined
    /\ fnCall.ret.value.progressPercentage = Num(100)

\* the session fields that are read under two names, and their defaults
FieldPairs ==
    {[field |-> "currentStage", snake |-> "current_stage",
      camel |-> "currentStage", default |-> Str("Processing...")],
     [field |-> "progressPercentage", snake |-> "progress_percentage",
      camel |-> "progressPercentage", default |-> Num(0)],
     [field |-> "currentTask", snake |-> "current_task",
      camel |-> "currentTask", default |-> Str("Initializing...")],
     [field |-> "estimatedCompletion", snake |-> "estimated_completion",
      camel |-> "estimatedCompletion", default |-> Undefined],
     [field |-> "resultsPreview", snake |-> "results_preview",
      camel |-> "resultsPreview", default |-> Undefined]}

\* what the session field shows for a carried value
Shown(field, x) ==
    IF field = "progressPercentage" THEN Num(Clamped(x[2])) ELSE x

\* C13 as stated: for each field read under two names, a payload that carries
\* exactly one of them gives the session the carried value (progress after
\* clamping), and the default is applied only when it carries neither
C13_CarriedValueWins ==
    SessionBuilt =>
        \A p \in FieldPairs :
            LET sn == Get(fnCall.arg, p.snake)
                cm == Get(fnCall.arg, p.camel)
                out == fnCall.ret.value[p.field]
            IN  /\ (sn # Undefined /\ cm = Undefined) => out = Shown(p.field, sn)
                /\ (sn = Undefined /\ cm # Undefined) => out = Shown(p.field, cm)
                /\ (sn = Undefined /\ cm = Undefined) => out = p.default

\* C13: for each field read under two names, a payload that carries exactly
\* one of them with a truthy value (a non-empty string, a number other than
\* 0, an object) gives the session that value (progress after clamping); the
\* default of the field is applied when the payload carries neither name,
\* and also when what it carries is an empty string, 0 or null
C13_TruthyValueWins ==
    SessionBuilt =>
        \A p \in FieldPairs :
            LET sn == Get(fnCall.arg, p.snake)
                cm == Get(fnCall.arg, p.camel)
                out == fnCall.ret.value[p.field]
            IN  /\ (Truthy(sn) /\ cm = Undefined) => out = Shown(p.field, sn)
                /\ (sn = Undefined /\ Truthy(cm)) => out = Shown(p.field, cm)
                /\ (~Truthy(sn) /\ ~Truthy(cm) /\ p.default # Undefined)
                       => out = p.default

\* the payload carries only currentStage and the session shows its value
C13_Witness ==
    /\ SessionBuilt
    /\ Get(fnCall.arg, "current_stage") = Undefined
    /\ Get(fnCall.arg, "currentStage") = Str("Writing chapters")
    /\ fnCall.ret.value.currentStage = Str("Writing chapters")

\* C14 as stated: a status body that is valid JSON but no object (null, a
\* number, a string, an array) makes monitorProcessing throw, so that it is
\* a polling failure and no session is built from it
C14_NonObjectRejected ==
    (fnCall.fn = "monitorProcessing" /\ fnCall.done /\ fnCall.arg[1] # "object")
        => ~fnCall.ret.ok

---------------------------------------------------------------------------
(* Properties of processAudioFromFirebase and fetchWithRetry *)

Submit == fnCall.fn = "processAudioFromFirebase"

\* empty, or nothing but white space
AllWhiteSpace(s) == \A i \in 1..Len(s) : CharAt(s, i) \in WhiteSpace

\* the errors of the three argument checks
ValidationErrors ==
    {BackendAiServiceError(m) : m \in {"No audio URLs provided",
                                       "Chapter title is required",
                                       "Chapter description is required"}}

\* C15: processAudioFromFirebase called with no audio URL, with a title that
\* is empty or white space, or with such a description, rejects with a
\* validation error and never sends a request
C15_InvalidNeverSent ==
    (/\ Submit
     /\ \/ fnCall.arg.audioUrls = <<>>
        \/ AllWhiteSpace(fnCall.arg.chapterTitle)
        \/ AllWhiteSpace(fnCall.arg.chapterDescription))
    => /\ fnCall.sent = 0
       /\ fnCall.phase \in {"called", "done"}
       /\ fnCall.done => (~fnCall.ret.ok /\ fnCall.ret.error \in ValidationErrors)

\* a title of white space only was rejected without a request
C15_Witness ==
    /\ Submit
    /\ fnCall.done
    /\ fnCall.arg.audioUrls # <<>>
    /\ fnCall.arg.chapterTitle = " \t\n"
    /\ ~AllWhiteSpace(fnCall.arg.chapterDescription)
    /\ fnCall.ret.error = BackendAiServiceError("Chapter title is required")
    /\ fnCall.sent = 0

\* the errors fetchWithRetry throws after its loop
ExhaustedErrors == {RetriesExhausted(f) : f \in FetchFailures}

\* C16: one request is attempted at most retryAttempts times; an attempt that
\* fails is followed by the next one while attempts are left; the first
\* attempt that gets a response, of any status, ends the request and the
\* response is what the caller works on; the NetworkError of fetchWithRetry is
\* thrown only after retryAttempts attempts failed
C16_AtMostRetryAttempts ==
    Submit =>
        /\ fnCall.sent <= retryAttempts
        /\ fnCall.sent = fnCall.attempt
        /\ fnCall.phase = "fetch" => Len(fnCall.failures) = fnCall.sent - 1
        /\ fnCall.phase = "delay" =>
               (Len(fnCall.failures) = fnCall.sent /\ fnCall.sent < retryAttempts)
        /\ fnCall.response # NoResponse =>
               /\ fnCall.done
               /\ Len(fnCall.failures) = fnCall.sent - 1
               /\ fnCall.ret = SubmitResult(fnCall.response)
        /\ (fnCall.done /\ fnCall.sent > 0 /\ fnCall.response = NoResponse) =>
               /\ Len(fnCall.failures) = retryAttempts
               /\ fnCall.ret.error \in ExhaustedErrors
        /\ (fnCall.done /\ fnCall.ret.error \in ExhaustedErrors) =>
               (Len(fnCall.failures) = retryAttempts /\ fnCall.response = NoResponse)

\* two attempts failed and the third was answered with HTTP 500, which ended
\* the request
C16_Witness ==
    /\ Submit
    /\ fnCall.done
    /\ Len(fnCall.failures) = retryAttempts - 1
    /\ fnCall.sent = retryAttempts
    /\ fnCall.response.http = 500
    /\ fnCall.ret.error.name = "NetworkError"
    /\ fnCall.ret.error \notin ExhaustedErrors

\* C17 as stated: after the failed attempt number n fetchWithRetry waits
\* retryDelay x n, after the last attempt too, so that a request whose
\* attempts all fail has waited retryDelay x 1, x 2, ... x retryAttempts
\* (1s, 2s, 3s with the defaults)
C17_WaitAfterEveryFailure ==
    (Submit /\ fnCall.done) =>
        fnCall.waits = [n \in 1..Len(fnCall.failures) |-> retryDelay * n]

\* C17: after the failed attempt number n fetchWithRetry waits retryDelay x n
\* if another attempt is left, and does not wait after the last attempt: a
\* request whose attempts all fail has waited retryDelay x 1, ... x
\* (retryAttempts - 1), which is 1s and 2s with the defaults
C17_WaitsBetweenAttempts ==
    Submit =>
        /\ \A n \in 1..Len(fnCall.waits) : fnCall.waits[n] = retryDelay * n
        /\ Len(fnCall.waits) =
               MathMin(Len(fnCall.failures), retryAttempts - 1)

\* all attempts failed, after two waits
C17_Witness ==
    /\ Submit
    /\ fnCall.done
    /\ Len(fnCall.failures) = retryAttempts
    /\ fnCall.waits = <<retryDelay, retryDelay * 2>>

---------------------------------------------------------------------------
(* Properties of the results transformation *)

\* getResults returned the results of a body
ResultsBuilt ==
    /\ fnCall.fn = "getResults"
    /\ fnCall.done
    /\ fnCall.ret.ok

\* the first of the fields `names` that the body carries as a list
SourceList(names) ==
    LET carried == {k \in names : Get(fnCall.arg, k)[1] = "array"} IN
    IF carried = {} THEN <<>> ELSE Get(fnCall.arg, CHOOSE k \in carried : TRUE)[2]

\* the first of the fields `names` that the body carries as an object
SourceObject(names) ==
    LET carried == {k \in names : Get(fnCall.arg, k)[1] = "object"} IN
    IF carried = {} THEN EmptyObject ELSE Get(fnCall.arg, CHOOSE k \in carried : TRUE)

\* the object carries none of the fields `names`
Lacks(o, names) == \A k \in names : Get(o, k) = Undefined

ReadingTimeNames == {"estimated_reading_time", "estimatedReadingTime"}
WordCountNames == {"word_count", "wordCount"}

\* the least number of minutes that covers n words at 200 words a minute
MinutesFor(n) == CHOOSE m \in 0..n : m * 200 >= n /\ (m = 0 \/ (m - 1) * 200 < n)

\* the words of a text: the places where a run of non-blanks starts
WordsIn(s) ==
    Cardinality({i \in 1..Len(s) :
                    CharAt(s, i) # " " /\ (i = 1 \/ CharAt(s, i - 1) = " ")})

\* C18 as stated: a chapter that comes without estimatedReadingTime gets the
\* reading time of its transformed wordCount, ceil(wordCount / 200), whether
\* the word count was supplied or derived from the content
C18_ReadingTimeFromWordCount ==
    ResultsBuilt =>
        \A i \in 1..Len(SourceList({"chapters"})) :
            Lacks(SourceList({"chapters"})[i], ReadingTimeNames) =>
                LET out == fnCall.ret.value.chapters[2][i] IN
                out.estimatedReadingTime = Num(MinutesFor(out.wordCount[2]))

\* C19 as stated: a chapter that comes with content and without a word count
\* gets the number of words of the content as wordCount (200 words give 200,
\* and a reading time of 1 if none was supplied); empty content and absent
\* content give wordCount 0
C19_WordCountFromContent ==
    ResultsBuilt =>
        \A i \in 1..Len(SourceList({"chapters"})) :
            LET src == SourceList({"chapters"})[i]
                out == fnCall.ret.value.chapters[2][i]
                words == IF Get(src, "content") = Undefined THEN 0
                         ELSE WordsIn(Get(src, "content")[2])
            IN  Lacks(src, WordCountNames) =>
                    /\ out.wordCount = Num(words)
                    /\ Lacks(src, ReadingTimeNames) =>
                           out.estimatedReadingTime = Num(MinutesFor(words))

\* a field of the result: its name, the names it is read under, its type
Field(out, names, type) == [out |-> out, names |-> names, type |-> type]

ChapterFields ==
    {Field("id", {"id"}, "string"),
     Field("title", {"title"}, "string"),
     Field("content", {"content"}, "string"),
     Field("qualityScore", {"quality_score", "qualityScore"}, "number"),
     Field("themes", {"themes"}, "array"),
     Field("participants", {"participants"}, "array"),
     Field("temporalMarkers", {"temporal_markers", "temporalMarkers"}, "array"),
     Field("wordCount", WordCountNames, "number"),
     Field("estimatedReadingTime", ReadingTimeNames, "number")}

QuestionFields ==
    {Field("id", {"id"}, "string"),
     Field("category", {"category"}, "string"),
     Field("question", {"question"}, "string"),
     Field("context", {"context"}, "string"),
     Field("priorityScore", {"priority_score", "priorityScore"}, "number"),
     Field("reasoning", {"reasoning"}, "string"),
     Field("suggestedAnswers", {"suggested_answers", "suggestedAnswers"}, "array")}

StorylineFields ==
    {Field("id", {"id"}, "string"),
     Field("title", {"title"}, "string"),
     Field("description", {"description"}, "string"),
     Field("chapters", {"chapters"}, "array"),
     Field("confidence", {"confidence"}, "number")}

GraphSummaryFields ==
    {Field("totalNodes", {"total_nodes", "totalNodes"}, "number"),
     Field("totalEdges", {"total_edges", "totalEdges"}, "number"),
     Field("mainStorylines", {"main_storylines", "mainStorylines"}, "number"),
     Field("temporalSpan", {"temporal_span", "temporalSpan"}, "string"),
     Field("keyThemes", {"key_themes", "keyThemes"}, "array")}

ProcessingSummaryFields ==
    {Field("totalProcessingTime",
           {"total_processing_time", "totalProcessingTime"}, "string"),
     Field("audioFilesProcessed",
           {"audio_files_processed", "audioFilesProcessed"}, "number"),
     Field("transcriptionAccuracy",
           {"transcription_accuracy", "transcriptionAccuracy"}, "number"),
     Field("chaptersGenerated", {"chapters_generated", "chaptersGenerated"}, "number"),
     Field("wordsGenerated", {"words_generated", "wordsGenerated"}, "number"),
     Field("aiAgentsUsed", {"ai_agents_used", "aiAgentsUsed"}, "array")}

\* the zero value of a type
Zero(type) ==
    CASE type = "string" -> Str("")
      [] type = "number" -> Num(0)
      [] type = "array" -> Arr(<<>>)

\* what a missing field of the item number `index` (from 0) of a list gets
Placeholder(kind, f, index) ==
    CASE f.out = "id" -> Str(kind \o "_" \o ToString(index))
      [] f.out = "title" /\ kind = "chapter" -> Str("Chapter " \o ToString(index + 1))
      [] f.out = "title" /\ kind = "storyline" ->
             Str("Storyline " \o ToString(index + 1))
      [] f.out = "category" -> Str("General")
      [] f.out \in {"qualityScore", "suggestedAnswers"} -> Undefined
      [] OTHER -> Zero(f.type)

\* the field is computed from the content the chapter carries
FromContent(f, src) ==
    /\ f.out \in {"wordCount", "estimatedReadingTime"}
    /\ Get(src, "content") # Undefined

\* the items of the result with what they were made from: chapters,
\* questions and storylines with their index, the two summaries
ListsOfResult ==
    {[kind |-> "chapter", fields |-> ChapterFields,
      src |-> SourceList({"chapters"}), out |-> fnCall.ret.value.chapters[2]],
     [kind |-> "question", fields |-> QuestionFields,
      src |-> SourceList({"followup_questions", "followupQuestions"}),
      out |-> fnCall.ret.value.followupQuestions[2]],
     [kind |-> "storyline", fields |-> StorylineFields,
      src |-> SourceList({"storylines"}), out |-> fnCall.ret.value.storylines[2]]}

SummariesOfResult ==
    {[fields |-> GraphSummaryFields,
      src |-> SourceObject({"graph_summary", "graphSummary"}),
      out |-> fnCall.ret.value.graphSummary[2]],
     [fields |-> ProcessingSummaryFields,
      src |-> SourceObject({"processing_summary", "processingSummary"}),
      out |-> fnCall.ret.value.processingSummary[2]]}

\* C20 as stated: every field that is missing in a chapter, a question, a
\* storyline, the graph summary or the processing summary is filled with the
\* zero value of its type: 0, the empty list, the empty string
C20_MissingGetsZero ==
    ResultsBuilt =>
        /\ \A l \in ListsOfResult : \A i \in 1..Len(l.src) : \A f \in l.fields :
               Lacks(l.src[i], f.names) => l.out[i][f.out] = Zero(f.type)
        /\ \A x \in SummariesOfResult : \A f \in x.fields :
               Lacks(x.src, f.names) => x.out[f.out] = Zero(f.type)

\* C20: a missing field is filled with the zero value of its type (0, the
\* empty list, the empty string), with these exceptions: a missing id gets
\* chapter_<i>, question_<i>, storyline_<i> and a missing title Chapter <i+1>,
\* Storyline <i+1>, i being the index from 0; a missing category gets
\* 'General'; qualityScore and suggestedAnswers stay undefined; wordCount and
\* estimatedReadingTime are computed from the content when there is one
C20_MissingGetsDefault ==
    ResultsBuilt =>
        /\ \A l \in ListsOfResult : \A i \in 1..Len(l.src) : \A f \in l.fields :
               (Lacks(l.src[i], f.names) /\ ~FromContent(f, l.src[i]))
                   => l.out[i][f.out] = Placeholder(l.kind, f, i - 1)
        /\ \A x \in SummariesOfResult : \A f \in x.fields :
               Lacks(x.src, f.names) => x.out[f.out] = Zero(f.type)

\* a storyline without any field, second of its list, got its placeholders
\* and zero values
C20_Witness ==
    /\ ResultsBuilt
    /\ Len(SourceList({"storylines"})) = 2
    /\ SourceList({"storylines"})[2] = EmptyObject
    /\ fnCall.ret.value.storylines[2][2].id = Str("storyline_1")
    /\ fnCall.ret.value.storylines[2][2].title = Str("Storyline 2")
    /\ fnCall.ret.value.storylines[2][2].description = Str("")
    /\ fnCall.ret.value.storylines[2][2].chapters = Arr(<<>>)
    /\ fnCall.ret.value.storylines[2][2].confidence = Num(0)

----------------------------------------------------------------------------
(* Two runs of pollUntilComplete side by side, for two sessions.  Each call
   of the async function has its own startTime and consecutiveErrors; the two
   share the service object, whose only field is the configuration, the clock
   and the event loop, which runs one continuation at a time.  A status request
   takes any time; what it gives is drawn from the kinds of iteration the loop
   distinguishes. *)

Runs == {1, 2}

\* the last instant of the shared clock
MaxClock == 9

\* how an iteration of the loop ends: the status request failed; it gave a
\* session that is processing, failed or completed; and after 'completed' the
\* results request gave the results or failed
Iterations == {"error", "processing", "failed", "completed", "completed, no results"}

\* consecutiveErrors as a field of the service: one counter for every run
CounterOf_Service(i) == 1

\* `let consecutiveErrors = 0`: a local of the call, one counter for each run
CounterOf(i) == i

\* the counter run i reads
Errors(rs, i) == rs[CounterOf(i)].consecutiveErrors

\* run i writes its counter
WithErrors(rs, i, n) == [rs EXCEPT ![CounterOf(i)].consecutiveErrors = n]

\* a call not made yet; streak is history: the iterations of this run that
\* ended in the catch block since its last successful status request
NotStarted(sid, interval, limit) ==
    [sessionId |-> sid, pollInterval |-> interval, maxDuration |-> limit,
     pc |-> "start", startTime |-> 0, consecutiveErrors |-> 0, wakeAt |-> 0,
     outcome |-> NoError, streak |-> 0]

TwoRuns == component.kind = "two runs"

InitTwoRuns ==
    /\ NoRun
    /\ fnCall = NoCall
    /\ component = [kind |-> "two runs", now |-> 0,
                    runs |-> [i \in Runs |-> NotStarted(IF i = 1 THEN "s1" ELSE "s2",
                                                        IF i = 1 THEN 1 ELSE MaxPollInterval,
                                                        MaxMaxDuration)]]

\* the component with the runs replaced
WithRuns(rs) == [component EXCEPT !.runs = rs]

\* const startTime = Date.now(); let consecutiveErrors = 0
RunCall(i) ==
    /\ TwoRuns
    /\ component.runs[i].pc = "start"
    /\ component' = WithRuns([WithErrors(component.runs, i, 0) EXCEPT
                                  ![i].pc = "loopHead",
                                  ![i].startTime = component.now])
    /\ UNCHANGED <<run, fnCall>>

\* the while test holds: monitorProcessing is called
RunPoll(i) ==
    /\ TwoRuns
    /\ component.runs[i].pc = "loopHead"
    /\ LoopGuard(component.now - component.runs[i].startTime, component.runs[i].maxDuration)
    /\ component' = WithRuns([component.runs EXCEPT ![i].pc = "polling"])
    /\ UNCHANGED <<run, fnCall>>

\* the while test fails: throw new ProcessingTimeoutError(sessionId)
RunTimeout(i) ==
    /\ TwoRuns
    /\ component.runs[i].pc = "loopHead"
    /\ ~LoopGuard(component.now - component.runs[i].startTime, component.runs[i].maxDuration)
    /\ component' = WithRuns([component.runs EXCEPT
                                  ![i].pc = "rejected",
                                  ![i].outcome = ProcessingTimeoutError(component.runs[i].sessionId)])
    /\ UNCHANGED <<run, fnCall>>

\* the status request of run i failed: the catch block
RunCatch(rs, i, error) ==
    LET n == Errors(rs, i) + 1
        counted == [WithErrors(rs, i, n) EXCEPT ![i].streak = rs[i].streak + 1]
    IN  IF GiveUp(n)
        THEN [counted EXCEPT ![i].pc = "rejected", ![i].outcome = PollingExhausted(error)]
        ELSE [counted EXCEPT ![i].pc = "backoff",
                             ![i].wakeAt = component.now + rs[i].pollInterval * 2]

\* the iteration of run i ends
RunIteration(i) ==
    /\ TwoRuns
    /\ component.runs[i].pc = "polling"
    /\ \E it \in Iterations :
          LET rs == component.runs
              reset == [WithErrors(rs, i, 0) EXCEPT ![i].streak = 0]
          IN  component' = WithRuns(
                CASE it = "error" -> RunCatch(rs, i, NetworkError("Failed to fetch"))
                  [] it = "processing" ->
                        [reset EXCEPT ![i].pc = "sleep",
                                      ![i].wakeAt = component.now + rs[i].pollInterval]
                  [] it = "failed" ->
                        RunCatch(reset, i, BackendAiServiceError("Processing failed: "))
                  [] it = "completed" ->
                        [reset EXCEPT ![i].pc = "resolved", ![i].outcome = Results("book")]
                  [] it = "completed, no results" ->
                        RunCatch(reset, i, BackendAiServiceError("Failed to get results: 500")))
    /\ UNCHANGED <<run, fnCall>>

\* the timer of delay() fires
RunWakes(i) ==
    /\ TwoRuns
    /\ component.runs[i].pc \in {"sleep", "backoff"}
    /\ component.runs[i].wakeAt <= component.now
    /\ component' = WithRuns([component.runs EXCEPT ![i].pc = "loopHead"])
    /\ UNCHANGED <<run, fnCall>>

\* a run with a continuation ready
Ready(r) ==
    \/ r.pc = "loopHead"
    \/ r.pc \in {"sleep", "backoff"} /\ r.wakeAt <= component.now

\* time passes once no continuation is ready
TwoRunsTick ==
    /\ TwoRuns
    /\ component.now < MaxClock
    /\ \A i \in Runs : ~Ready(component.runs[i])
    /\ component' = [component EXCEPT !.now = component.now + 1]
    /\ UNCHANGED <<run, fnCall>>

RunStep(i) ==
    \/ RunCall(i)
    \/ RunPoll(i)
    \/ RunTimeout(i)
    \/ RunIteration(i)
    \/ RunWakes(i)

NextTwoRuns ==
    \/ \E i \in Runs : RunStep(i)
    \/ TwoRunsTick

SpecTwoRuns == InitTwoRuns /\ [][NextTwoRuns]_vars

\* run i alone: the other call is never made
Other(i) == 3 - i

\* the steps run i can take from r at the instant t when no other run exists
Alone(r, t) ==
    {r} \cup
        (IF r.pc = "start"
         THEN {[r EXCEPT !.pc = "loopHead", !.startTime = t, !.consecutiveErrors = 0]}
         ELSE {}) \cup
        (IF r.pc = "loopHead"
         THEN {IF LoopGuard(t - r.startTime, r.maxDuration)
               THEN [r EXCEPT !.pc = "polling"]
               ELSE [r EXCEPT !.pc = "rejected",
                              !.outcome = ProcessingTimeoutError(r.sessionId)]}
         ELSE {}) \cup
        (IF r.pc \in {"sleep", "backoff"} /\ r.wakeAt <= t
         THEN {[r EXCEPT !.pc = "loopHead"]}
         ELSE {}) \cup
        (IF r.pc = "polling"
         THEN {[r EXCEPT !.pc = "resolved", !.outcome = Results("book"),
                         !.consecutiveErrors = 0, !.streak = 0],
               [r EXCEPT !.pc = "sleep", !.wakeAt = t + r.pollInterval,
                         !.consecutiveErrors = 0, !.streak = 0]} \cup
              {IF GiveUp(n) THEN [r EXCEPT !.pc = "rejected", !.outcome = PollingExhausted(e),
                                           !.consecutiveErrors = n, !.streak = k]
                            ELSE [r EXCEPT !.pc = "backoff", !.wakeAt = t + r.pollInterval * 2,
                                           !.consecutiveErrors = n, !.streak = k] :
                 <<n, k, e>> \in {<<r.consecutiveErrors + 1, r.streak + 1,
                                    NetworkError("Failed to fetch")>>,
                                  <<1, 1, BackendAiServiceError("Processing failed: ")>>,
                                  <<1, 1, BackendAiServiceError("Failed to get results: 500")>>}}
         ELSE {})

\* C21: two runs of pollUntilComplete for different sessions do not influence
\* each other: a step changes the locals of one run at most, every step of a
\* run is a step it takes when it runs alone (its counter counts its own
\* failed iterations, its timer is set from its own interval, its outcome is
\* for its own session), whatever the other run does meanwhile.
C21_RunsIndependent ==
    /\ [](TwoRuns =>
            \A i \in Runs :
               /\ component.runs[i].consecutiveErrors = component.runs[i].streak
               /\ component.runs[i].outcome.name = "ProcessingTimeoutError" =>
                      component.runs[i].outcome = ProcessingTimeoutError(component.runs[i].sessionId))
    /\ [][\A i \in Runs :
             /\ component'.runs[i] \in Alone(component.runs[i], component.now)
             /\ component'.runs[i] # component.runs[i] =>
                    component'.runs[Other(i)] = component.runs[Other(i)]]_vars

\* one run was rejected after five failures of its own while the other one,
\* started later and polled in between, is sleeping after a successful poll
C21_Witness ==
    /\ TwoRuns
    /\ component.runs[1].pc = "rejected"
    /\ component.runs[1].outcome.name = "BackendAiServiceError"
    /\ component.runs[1].consecutiveErrors = maxConsecutiveErrors
    /\ component.runs[2].pc = "sleep"
    /\ component.runs[2].consecutiveErrors = 0
    /\ component.runs[2].startTime > component.runs[1].startTime

----------------------------------------------------------------------------
(* The counter of consecutive failures, the progress callback, the waits and
   the results request of one run *)

\* C22: consecutiveErrors stays between 0 and 5, it is 0 once a status fetch
\* succeeded, and the run is rejected with the polling-exhausted error only
\* when its 5 most recent status fetches all failed: at least 5 of its status
\* fetches failed.
C22_ExhaustedByFiveFailedFetches ==
    /\ consecutiveErrors \in 0..maxConsecutiveErrors
    /\ pc \in {"afterProgress", "sleep"} => consecutiveErrors = 0
    /\ pc = "rejected" /\ IsPollingExhausted(outcome) =>
           nPolls - nPollOk >= maxConsecutiveErrors

\* C23: onProgress is invoked exactly once for each status fetch that
\* succeeded and never for one that failed: a call is the step that follows
\* the fetch's answer, it hands over the session of that fetch, and the next
\* status request is sent only when every answer was handed over; so the
\* callback sees the sessions in poll order.
C23_ProgressOnceForEachFetch ==
    [][/\ nPollOk' # nPollOk =>
             /\ nPollOk' = nPollOk + 1
             /\ nProgress' = nProgress
             /\ pc' = "gotSession"
       /\ nProgress' # nProgress =>
             /\ pc = "gotSession"
             /\ nProgress' = nProgress + 1
             /\ nProgress' = nPollOk
             /\ progress' = session
       /\ pc = "gotSession" /\ pc' # pc => nProgress' = nProgress + 1
       /\ nPolls' # nPolls => nProgress = nPollOk
       /\ nPollOk' = nPollOk => nProgress' = nProgress \/ pc = "gotSession"]_vars

\* of three status fetches the second failed: two calls of onProgress, the
\* last with the session of the third fetch
C23_Witness ==
    /\ nPolls = 3 /\ nPollOk = 2 /\ nProgress = 2
    /\ consecutiveErrors = 0
    /\ pc = "sleep"
    /\ progress = session
    /\ session.status = "processing"

\* C24: after a status poll that gave a session neither completed nor failed
\* the run waits exactly pollInterval before its next poll, and after a poll
\* that failed, fewer than 5 in a row, exactly 2 * pollInterval: handling the
\* answer takes no time, it ends in the matching delay, the delay lasts that
\* long, and the loop then polls at once or gives up on maxDuration.
C24_WaitsBetweenPolls ==
    [][/\ pc \in {"gotSession", "afterProgress", "catch", "loopHead"} => now' = now
       /\ (pc = "afterProgress" /\ session.status \notin {"completed", "failed"} /\ pc' # pc)
              => pc' = "sleep"
       /\ (pc = "catch" /\ consecutiveErrors + 1 < maxConsecutiveErrors /\ pc' # pc)
              => pc' = "backoff"
       /\ (pc = "sleep" /\ pc' # pc) =>
              /\ now' = now + pollInterval
              /\ pc' = "loopHead"
       /\ (pc = "backoff" /\ pc' # pc) =>
              /\ now' = now + pollInterval * 2
              /\ pc' = "loopHead"
       /\ (pc = "loopHead" /\ pc' # pc) =>
              \/ pc' \in {"fetch", "catch"} /\ nPolls' = nPolls + 1
              \/ pc' = "rejected" /\ IsTimeout(outcome')
       /\ pc' = "sleep" /\ pc # pc' => pc = "afterProgress"
       /\ pc' = "backoff" /\ pc # pc' => pc = "catch"]_vars

\* with pollInterval 2: a poll answered at once, the wait of 2, a poll failed
\* with HTTP 500, the wait of 4, and the third poll is out at 6
C24_Witness ==
    /\ pollInterval = 2
    /\ pc = "fetch" /\ call = "status"
    /\ nPolls = 3 /\ nPollOk = 1
    /\ consecutiveErrors = 1
    /\ now - startTime = 6

\* C25: the results endpoint is requested only after a status poll of the run
\* returned 'completed', getResults is called once in a run, and the run
\* resolves only after that call, with the results it gave.
C25_ResultsOnceAfterCompleted ==
    /\ call = "results" =>
          /\ session.status = "completed"
          /\ progress = session
          /\ nResultsCalls >= 1
    /\ nResultsCalls <= 1
    /\ pc = "resolved" =>
          /\ call = "results"
          /\ nResultsCalls = 1
          /\ IsResults(outcome)

----------------------------------------------------------------------------
(* TranscriptionService: the static fields transcriber and isInitializing, and
   calls of transcribeAudio made side by side, each of which awaits
   initializeTranscriber.  The event loop runs one continuation at a time: a
   step is the code between two awaits. *)

\* calls of transcribeAudio
MaxCallers == 3
Callers == 1..MaxCallers

\* the n-th function pipeline() resolved with
Transcriber(n) == <<"function", n>>

\* what pipeline() rejects with
PipelineErrors == {Err("Error", "no available backend found")}

\* what the transcriber gives: result.text
Texts == {Str("bonjour"), Str(""), Undefined}

\* the guard without the flag
AlreadyInitialized_TranscriberOnly(t, flag) == Truthy(t)

\* if (this.transcriber || this.isInitializing)
AlreadyInitialized(t, flag) == Truthy(t) \/ flag

\* a call of transcribeAudio not made yet; `initialized` is what its await of
\* initializeTranscriber gave, `during` is history: the call whose
\* initialization was in progress when the guard returned, 0 if none was
NotCalled ==
    [pc |-> "idle", initialized |-> Undefined, during |-> 0, outcome |-> Unsettled]

Transcription == component.kind = "TranscriptionService"

InitTranscription ==
    /\ NoRun
    /\ fnCall = NoCall
    /\ component = [kind |-> "TranscriptionService",
                    transcriber |-> Null,
                    isInitializing |-> FALSE,
                    created |-> 0,
                    callers |-> [c \in Callers |-> NotCalled]]

\* the calls whose initialization awaits pipeline()
Initializing == {c \in Callers : component.callers[c].pc \in {"webgpu", "cpu"}}

\* transcribeAudio calls initializeTranscriber, which runs up to its first
\* await: the guard returns this.transcriber, otherwise the flag is set and
\* pipeline() is called with device 'webgpu'
TranscribeAudio(c) ==
    /\ Transcription
    /\ component.callers[c].pc = "idle"
    /\ IF AlreadyInitialized(component.transcriber, component.isInitializing)
       THEN component' = [component EXCEPT
                              !.callers[c].pc = "initialized",
                              !.callers[c].initialized = component.transcriber,
                              !.callers[c].during =
                                  IF Initializing = {} THEN 0 ELSE CHOOSE d \in Initializing : TRUE]
       ELSE component' = [component EXCEPT
                              !.isInitializing = TRUE,
                              !.callers[c].pc = "webgpu"]
    /\ UNCHANGED <<run, fnCall>>

\* pipeline() resolves: this.transcriber = await pipeline(...); return
\* this.transcriber; finally this.isInitializing = false
PipelineResolves(c) ==
    /\ Transcription
    /\ component.callers[c].pc \in {"webgpu", "cpu"}
    /\ component' = [component EXCEPT
                         !.transcriber = Transcriber(component.created + 1),
                         !.created = component.created + 1,
                         !.isInitializing = FALSE,
                         !.callers[c].pc = "initialized",
                         !.callers[c].initialized = Transcriber(component.created + 1)]
    /\ UNCHANGED <<run, fnCall>>

\* pipeline() with device 'webgpu' rejects: the catch block calls pipeline()
\* without device
WebGpuRejects(c) ==
    /\ Transcription
    /\ component.callers[c].pc = "webgpu"
    /\ component' = [component EXCEPT !.callers[c].pc = "cpu"]
    /\ UNCHANGED <<run, fnCall>>

\* the message transcribeAudio rethrows with
TranscriptionFailed(error) == Err("Error", "Échec de la transcription: " \o error.message)

\* the second pipeline() rejects: throw cpuError; finally
\* this.isInitializing = false; transcribeAudio catches and rethrows
CpuRejects(c) ==
    /\ Transcription
    /\ component.callers[c].pc = "cpu"
    /\ \E e \in PipelineErrors :
          component' = [component EXCEPT
                            !.isInitializing = FALSE,
                            !.callers[c].pc = "rejected",
                            !.callers[c].outcome = Threw(TranscriptionFailed(e))]
    /\ UNCHANGED <<run, fnCall>>

\* transcribeAudio after its await of initializeTranscriber: without a
\* transcriber it throws, otherwise it calls the transcriber
Transcribe(c) ==
    /\ Transcription
    /\ component.callers[c].pc = "initialized"
    /\ IF ~Truthy(component.callers[c].initialized)
       THEN component' = [component EXCEPT
                              !.callers[c].pc = "rejected",
                              !.callers[c].outcome =
                                  Threw(TranscriptionFailed(
                                      Err("Error", "Impossible d'initialiser le transcripteur")))]
       ELSE component' = [component EXCEPT !.callers[c].pc = "transcribing"]
    /\ UNCHANGED <<run, fnCall>>

\* the transcriber resolves: result.text.substring(0, 100) is logged, which
\* throws on a result without text, caught and rethrown as a failure;
\* otherwise return result.text || ''
TranscriberResolves(c) ==
    /\ Transcription
    /\ component.callers[c].pc = "transcribing"
    /\ \E text \in Texts :
          IF text[1] # "string"
          THEN component' = [component EXCEPT
                     !.callers[c].pc = "rejected",
                     !.callers[c].outcome =
                         Threw(TranscriptionFailed(
                             Err("TypeError",
                                 "Cannot read properties of undefined (reading 'substring')")))]
          ELSE component' = [component EXCEPT
                     !.callers[c].pc = "resolved",
                     !.callers[c].outcome = Returned(Or(text, Str("")))]
    /\ UNCHANGED <<run, fnCall>>

\* the transcriber rejects: transcribeAudio catches and rethrows
TranscriberRejects(c) ==
    /\ Transcription
    /\ component.callers[c].pc = "transcribing"
    /\ component' = [component EXCEPT
                         !.callers[c].pc = "rejected",
                         !.callers[c].outcome =
                             Threw(TranscriptionFailed(Err("Error", "Unsupported audio")))]
    /\ UNCHANGED <<run, fnCall>>

NextTranscription ==
    \E c \in Callers :
       \/ TranscribeAudio(c)
       \/ PipelineResolves(c)
       \/ WebGpuRejects(c)
       \/ CpuRejects(c)
       \/ Transcribe(c)
       \/ TranscriberResolves(c)
       \/ TranscriberRejects(c)

SpecTranscription == InitTranscription /\ [][NextTranscription]_vars

\* C26: calls of initializeTranscriber made side by side never start a second
\* initialization: at most one call awaits pipeline() at any time, the flag is
\* set exactly while one does, and once a transcriber exists no call replaces
\* it or starts another initialization.
C26_OneInitialization ==
    /\ [](Transcription =>
            /\ Cardinality(Initializing) <= 1
            /\ component.isInitializing <=> Initializing # {}
            /\ component.created <= 1
            /\ Truthy(component.transcriber) => Initializing = {})
    /\ [][Truthy(component.transcriber) => component'.transcriber = component.transcriber]_vars

\* the initialization of one call fell back to the second pipeline() while
\* the two other calls went through the guard
C26_Witness ==
    /\ Transcription
    /\ component.callers[1].pc = "cpu"
    /\ component.isInitializing
    /\ component.callers[2].pc = "initialized"
    /\ component.callers[3].pc = "rejected"

\* C27: a call of transcribeAudio made while the initialization of another
\* call is in progress obtains the transcriber when that initialization
\* succeeds: what its await of initializeTranscriber gave is not null.
C27_ConcurrentCallGetsTranscriber ==
    Transcription =>
        \A c \in Callers :
           LET d == component.callers[c].during
           IN  (d # 0 /\ Truthy(component.callers[d].initialized)) =>
                   Truthy(component.callers[c].initialized)

----------------------------------------------------------------------------
(* ProcessingProgressDialog with the runs it starts.  The parent renders the
   component with new props; React runs the component function, which reads
   the state isPolling as it is then, and, the dependencies [sessionId, isOpen]
   having changed, runs the cleanup the previous effect returned and then the
   effect of this render, both together.  The effect tests the isPolling of
   its render and the ref as it is now.  A state update schedules a render
   with the same dependencies, which runs no effect.  A run of
   pollUntilComplete, once started, is not stopped by anything; it settles at
   some time and pollProgress then clears the state and the ref and calls
   onComplete or onError. *)

DialogSessions == {"", "s1", "s2"}

\* renders with new props
MaxRenders == 4

Dialog == component.kind = "ProcessingProgressDialog"

\* the component mounted closed: the effect of the first render returned at
\* its guard.  `seen` is the isPolling the last render read, `commit` the part
\* of the commit still to run, `cleanup` whether the last effect returned its
\* cleanup function, `polling` the runs of pollUntilComplete not settled yet,
\* by session; `started` is history: the sessionId of the run the effect
\* started since the dependencies last changed, "" if it started none
InitDialog ==
    /\ NoRun
    /\ fnCall = NoCall
    /\ component = [kind |-> "ProcessingProgressDialog",
                    sessionId |-> "", isOpen |-> FALSE,
                    isPolling |-> FALSE, pollingRef |-> FALSE,
                    seen |-> FALSE, commit |-> "none", cleanup |-> FALSE,
                    polling |-> [s \in DialogSessions \ {""} |-> 0],
                    started |-> "", delivered |-> "", renders |-> 0]

\* the parent renders the dialog with other props
DialogRender(sid, open) ==
    /\ Dialog
    /\ component.commit = "none"
    /\ component.renders < MaxRenders
    /\ <<sid, open>> # <<component.sessionId, component.isOpen>>
    /\ component' = [component EXCEPT
                         !.sessionId = sid,
                         !.isOpen = open,
                         !.seen = component.isPolling,
                         !.commit = IF component.cleanup THEN "cleanup" ELSE "effect",
                         !.started = "",
                         !.renders = component.renders + 1]
    /\ UNCHANGED <<run, fnCall>>

\* return () => { setIsPolling(false); pollingRef.current = false; }
DialogCleanup ==
    /\ Dialog
    /\ component.commit = "cleanup"
    /\ component' = [component EXCEPT
                         !.isPolling = FALSE,
                         !.pollingRef = FALSE,
                         !.cleanup = FALSE,
                         !.commit = "effect"]
    /\ UNCHANGED <<run, fnCall>>

\* if (!isOpen || !sessionId || isPolling || pollingRef.current) return
EffectReturns(open, sid, polling, ref) == ~open \/ sid = "" \/ polling \/ ref

\* the effect: past the guard it sets the state and the ref, calls
\* pollProgress, which calls pollUntilComplete, and returns the cleanup
DialogEffect ==
    /\ Dialog
    /\ component.commit = "effect"
    /\ IF EffectReturns(component.isOpen, component.sessionId, component.seen,
                        component.pollingRef)
       THEN component' = [component EXCEPT !.commit = "none"]
       ELSE component' = [component EXCEPT
                              !.isPolling = TRUE,
                              !.pollingRef = TRUE,
                              !.polling[component.sessionId] = @ + 1,
                              !.started = component.sessionId,
                              !.cleanup = TRUE,
                              !.commit = "none"]
    /\ UNCHANGED <<run, fnCall>>

\* the run for session sid settles: setIsPolling(false); pollingRef.current =
\* false; onComplete(results) or onError(message)
PollProgressSettles(sid) ==
    /\ Dialog
    /\ component.commit = "none"
    /\ sid # ""
    /\ component.polling[sid] > 0
    /\ component' = [component EXCEPT
                         !.isPolling = FALSE,
                         !.pollingRef = FALSE,
                         !.polling[sid] = @ - 1,
                         !.delivered = sid]
    /\ UNCHANGED <<run, fnCall>>

DialogCommit == DialogCleanup \/ DialogEffect

NextDialog ==
    \/ \E sid \in DialogSessions, open \in BOOLEAN : DialogRender(sid, open)
    \/ DialogCleanup
    \/ DialogEffect
    \/ \E sid \in DialogSessions : PollProgressSettles(sid)

SpecDialog == InitDialog /\ [][NextDialog]_vars

\* React runs the commit of a render, and a run settles in the end
SpecDialogFair ==
    /\ SpecDialog
    /\ WF_vars(DialogCommit)
    /\ WF_vars(\E sid \in DialogSessions : PollProgressSettles(sid))

\* C28: the dialog never has two runs of pollUntilComplete polling at once for
\* the same sessionId, whatever the sequence of renders that open it, close
\* it and open it again, of cleanups and of runs settling.
C28_OneRunPerSession ==
    Dialog => \A sid \in DialogSessions \ {""} : component.polling[sid] <= 1

\* C29: whenever the dialog is rendered open with a non-empty sessionId, a run
\* for that sessionId is started in the end, also when the sessionId changed
\* while the run for the previous one is polling.
C29_OpenDialogStartsRun ==
    \A sid \in DialogSessions \ {""} :
       (Dialog /\ component.isOpen /\ component.sessionId = sid)
           ~> (component.started = sid)

----------------------------------------------------------------------------
(* The jobs one call of processAudioFromFirebase starts *)

\* C30: one call of processAudioFromFirebase makes the remote start at most
\* one job, also when an attempt of the POST times out on the client after
\* the remote received it and the request is sent again.
C30_AtMostOneJob ==
    Submit => fnCall.jobs <= 1

====
